---- MODULE Spec2Model ----
(***************************************************************************)
(* Model of the invoice merge planner (scripts/optimize.py) and of the     *)
(* resumable merge executor (scripts/batch_merge.py).                      *)
(*                                                                         *)
(* Amounts are whole currency units.  The planner converts every amount    *)
(* with float(); on whole numbers of this size float addition and          *)
(* comparison are exact, so sums are modelled by integer sums.  The one    *)
(* inexact float operation, target * 1.10, is modelled by TightEnough.     *)
(***************************************************************************)
EXTENDS Integers, Sequences, FiniteSets, TLC

VARIABLES
    \* ---- planner: optimize(orders, target, max_size) ----
    orders,        \* the input list of order dicts
    target,        \* minimum invoice amount
    max_size,      \* max orders per invoice
    pc,            \* position inside optimize / find_best_combo driver
    by_org,        \* orgId -> list of canHk orders (defaultdict)
    org_order,     \* the owner ids in the order the for-loop visits them
    org_i,         \* index of the owner being processed
    used,          \* pool indices already placed in an invoice
    invoices,      \* plan.invoices
    leftover,      \* plan.leftover : orgId -> list of orders
    lastCall,      \* arguments and result of the latest find_best_combo call
    \* ---- executor: batch_merge(ws_url) ----
    xpc,           \* position inside batch_merge
    runs,          \* how many times the executor has been started
    retry_limit,   \* config["execution"]["retry_limit"]
    delay_min,     \* config["execution"]["delay_min"]
    delay_max,     \* config["execution"]["delay_max"]
    delay,         \* the sleep the loop is in or has just made, and where
    plan_invoices, \* plan["invoices"] as read from the plan file
    all_orders_map,\* orderId -> whether the record carries originalOrderInfo
    progress,      \* the in-memory ledger
    disk,          \* the ledger file on disk
    completed_set, \* sorted order-id tuples of the completed entries at start
    remaining,     \* plan invoices not in completed_set
    idx,           \* index into remaining of the invoice in flight
    attempt,       \* attempts made for the invoice in flight
    success,       \* outcome of the latest attempt
    message,       \* message of the latest attempt
    sent,          \* invoices (as sorted id tuples) that driver commands were sent for in this run
    initial_completed, \* len(progress["completed"]) at start
    succeeded,     \* invoices whose submission returned success in this run
    finalized,     \* invoices (sorted id tuples) the remote side has carried out
    recommitted,   \* invoices committed to the remote side again after that
    run_log,       \* per invoice recorded in this run: attempts made and outcome
    disk_at_start, \* the ledger file as the process found it
    \* ---- core/cdp.py: the channel to the page ----
    mid,           \* mid[0], the request id counter
    cpc,           \* the channel helper in progress, if any
    calls,         \* calls of channel helpers made so far
    waited,        \* ticks the wait_for in progress has been waiting
    elapsed,       \* ticks since the helper in progress was called
    outcome,       \* how the latest helper call ended
    ids_sent,      \* the "id" of every command sent on the channel, in order
    answered,      \* the id of the response whose value run_js returned (0: none)
    dropped,       \* ids of the messages the run_js in progress or just ended discarded (0: an event)
    \* ---- core/config.py: load_config ----
    user_file,     \* config.json: whether it exists, and its document
    config,        \* _config, what load_config built
    kpc,           \* position of the process with respect to load_config
    \* ---- submit_one_invoice(ws, mid, invoice, ...) ----
    spc,           \* position inside submit_one_invoice
    page,          \* the page the browser shows (what location.href would give)
    navs,          \* navigations to the order list made by step A
    mode_from,     \* the page the clicks of step B were sent to
    commit_from,   \* the page commitBatchHkfpReq was called on
    now,           \* clock ticks since the deadline of the wait in progress was set
    recv_wait,     \* ticks the ws.recv() in progress has been waiting
    early_ack,     \* status of a checkMerge response event delivered while step E's run_js awaited its answer (0: none)
    ack_status,    \* status of the checkMerge response seen by step F (0: none)
    polls,         \* passes of the for-loop of step G
    ready_polls,   \* passes that found groupList non-empty
    finalize_calls,\* calls of vm.submitMerge()
    body_requests, \* Network.getResponseBody requests sent by step H
    body,          \* the response body step H received, if any
    page_text,     \* what step H read from the page, if it did
    ret            \* what submit_one_invoice returned or raised

planVars == <<orders, target, max_size, pc, by_org, org_order, org_i, used,
              invoices, leftover, lastCall>>
execVars == <<xpc, runs, retry_limit, delay_min, delay_max, delay,
              plan_invoices, all_orders_map, progress,
              disk, completed_set, remaining, idx, attempt, success, message,
              sent, initial_completed, succeeded, finalized, recommitted,
              run_log, disk_at_start>>
chanVars == <<mid, cpc, calls, waited, elapsed, outcome, ids_sent, answered,
              dropped>>
cfgVars == <<user_file, config, kpc>>
subVars == <<spc, page, navs, mode_from, commit_from, now, recv_wait,
             early_ack, ack_status, polls, ready_polls, finalize_calls, body_requests,
             body, page_text, ret>>
vars == <<planVars, execVars, chanVars, cfgVars, subVars>>

(***************************************************************************)
(* Bounds of the explored inputs.                                          *)
(***************************************************************************)
MaxOrders == 4          \* records in a general input (several owners)
MaxPool == 6            \* records in a single-owner input
MaxComboPool == 5       \* records handed to find_best_combo directly
MaxParamPool == 4       \* records of the inputs with unusual target / max_size
MaxPlan == 2            \* invoices in the plan file handed to the executor
MaxDone == 1            \* completed entries in the ledger before the first run
MaxRuns == 2            \* executor runs over the same plan
MaxCalls == 3           \* calls of channel helpers
MaxClock == 6           \* the clock stops counting here
TimeoutTicks == 3       \* the timeout of run_js, in ticks
DrainTicks == 2         \* the timeout of drain_messages, in ticks
TicksPerUnit == 2       \* clock ticks in one time unit of the waits of submit_one_invoice
MaxBodyRequests == 2    \* merge responses announced to step H in one attempt
Owners == {1, 2}
Amounts == {20, 40, 60, 70}
PoolAmounts == {20, 30, 40, 50, 60, 70}
ComboAmounts == {20, 25, 45, 60, 70}
Targets == {100}

(***************************************************************************)
(* Generic helpers.                                                        *)
(***************************************************************************)
Range(s) == {s[i] : i \in DOMAIN s}

RECURSIVE SumSeq(_)
SumSeq(s) == IF s = <<>> THEN 0 ELSE s[1] + SumSeq(Tail(s))

Min(a, b) == IF a < b THEN a ELSE b

Front(s) == SubSeq(s, 1, Len(s) - 1)

\* list.sort / sorted(key=...): a stable ascending sort of <<key, item>> pairs
InsertByKey(t, x) ==
    LET c == Cardinality({i \in DOMAIN t : t[i][1] <= x[1]})
    IN SubSeq(t, 1, c) \o <<x>> \o SubSeq(t, c + 1, Len(t))

RECURSIVE StableSort(_)
StableSort(s) ==
    IF s = <<>> THEN <<>>
    ELSE InsertByKey(StableSort(Front(s)), s[Len(s)])

(***************************************************************************)
(* find_best_combo(amounts_with_idx, target, max_size)                     *)
(* amounts_with_idx is a sequence of <<index, amount>> pairs sorted by     *)
(* amount descending; the result is a sequence of such pairs, or None.     *)
(***************************************************************************)
None == <<>>

AmountsOf(awi) == [j \in DOMAIN awi |-> awi[j][2]]

\* itertools.combinations(range(n), k): the k-subsets of the positions lo..n
\* as increasing tuples, in lexicographic order
RECURSIVE CombsFrom(_, _, _)
CombsFrom(lo, n, k) ==
    IF k = 0 THEN << <<>> >>
    ELSE IF lo > n - k + 1 THEN <<>>
    ELSE LET rest == CombsFrom(lo + 1, n, k - 1)
         IN [i \in 1..Len(rest) |-> <<lo>> \o rest[i]] \o CombsFrom(lo + 1, n, k)

Combinations(n, k) == CombsFrom(1, n, k)

ComboSum(amounts, combo) == SumSeq([i \in DOMAIN combo |-> amounts[combo[i]]])

\* target * 1.10 is a float product: for these whole targets it rounds above
\* the exact value 11*target/10 (100 * 1.10 = 110.00000000000001), for the
\* other multiples of ten up to 300 in magnitude it does not round above it
ProductRoundsUp(tgt) ==
    tgt \in {50, 90, 100, 110, 170, 180, 190, 200, 210, 220, 230}

\* best_sum < target * 1.10
TightEnough(s, tgt) ==
    \/ 10 * s < 11 * tgt
    \/ 10 * s = 11 * tgt /\ ProductRoundsUp(tgt)

\* mutant: a combination must exceed target
ImprovesAboveTarget(s, st, tgt) ==
    /\ s > tgt
    /\ (st.best = None \/ s < st.best_sum)

\* mutant: a total equal to the best replaces it
ImprovesOrTies(s, st, tgt) ==
    /\ s >= tgt
    /\ (st.best = None \/ s <= st.best_sum)

\* s >= target and s < best_sum   (best_sum is float('inf') while best is None)
Improves(s, st, tgt) ==
    /\ s >= tgt
    /\ (st.best = None \/ s < st.best_sum)

\* the inner for-loop over the combinations of one size
RECURSIVE ScanCombos(_, _, _, _, _)
ScanCombos(awi, cs, i, st, tgt) ==
    IF i > Len(cs) THEN st
    ELSE LET s == ComboSum(AmountsOf(awi), cs[i])
         IN IF Improves(s, st, tgt)
            THEN ScanCombos(awi, cs, i + 1,
                     [best |-> [j \in DOMAIN cs[i] |-> awi[cs[i][j]]],
                      best_sum |-> s, found |-> TRUE], tgt)
            ELSE ScanCombos(awi, cs, i + 1, st, tgt)

\* mutant: a top that only just reaches target is skipped as well
TopCannotExceed(amounts, size, tgt) ==
    SumSeq(SubSeq(amounts, 1, size)) <= tgt

\* sum(amounts[:size]) < target
TopCannotReach(amounts, size, tgt) ==
    SumSeq(SubSeq(amounts, 1, size)) < tgt

\* sum(amounts[-size:]) >= best_sum
BottomCannotBeat(amounts, size, st) ==
    /\ st.best # None
    /\ SumSeq(SubSeq(amounts, Len(amounts) - size + 1, Len(amounts))) >= st.best_sum

\* mutant: the size loop runs up to n whatever max_size is
LastSizeIgnoringMax(n, msz) == n

\* mutant: the range ends one size early
LastSizeExclusive(n, msz) == Min(msz + 1, n + 1) - 2

\* range(2, min(max_size + 1, n + 1)) ends at this size
LastSize(n, msz) == Min(msz + 1, n + 1) - 1

\* mutant: stop at the first size that finds anything
StopsAfterAnyFind(st, tgt) == st.found

\* if found_at_this_size and best_sum < target * 1.10: break
StopsAfter(st, tgt) == st.found /\ TightEnough(st.best_sum, tgt)

\* the outer for-loop over the sizes, from `size` on
RECURSIVE SearchSizes(_, _, _, _, _)
SearchSizes(awi, size, st, tgt, msz) ==
    IF size > LastSize(Len(awi), msz) THEN st.best
    ELSE IF TopCannotReach(AmountsOf(awi), size, tgt)
         THEN SearchSizes(awi, size + 1, st, tgt, msz)
    ELSE IF BottomCannotBeat(AmountsOf(awi), size, st)
         THEN SearchSizes(awi, size + 1, st, tgt, msz)
    ELSE LET st2 == ScanCombos(awi, Combinations(Len(awi), size), 1,
                               [st EXCEPT !.found = FALSE], tgt)
         IN IF StopsAfter(st2, tgt) THEN st2.best
            ELSE SearchSizes(awi, size + 1, st2, tgt, msz)

\* mutant: the sizes start at 1
find_best_combo_from_one(awi, tgt, msz) ==
    SearchSizes(awi, 1, [best |-> None, best_sum |-> 0, found |-> FALSE], tgt, msz)

find_best_combo(awi, tgt, msz) ==
    SearchSizes(awi, 2, [best |-> None, best_sum |-> 0, found |-> FALSE], tgt, msz)

(***************************************************************************)
(* optimize(orders, target, max_size)                                      *)
(***************************************************************************)
\* mutant: no canHk filter
HkOrdersUnfiltered(os) == os

\* hk_orders = [o for o in orders if o.get('canHk')]
HkOrders(os) == SelectSeq(os, LAMBDA o : o.canHk)

\* the keys of by_org in insertion order: owners by first appearance
RECURSIVE KeysInOrder(_)
KeysInOrder(hk) ==
    IF hk = <<>> THEN <<>>
    ELSE LET front == KeysInOrder(Front(hk))
             k == hk[Len(hk)].orgId
         IN IF k \in Range(front) THEN front ELSE Append(front, k)

\* by_org[o['orgId']].append(o)
GroupByOrg(hk) ==
    [k \in Range(KeysInOrder(hk)) |-> SelectSeq(hk, LAMBDA o : o.orgId = k)]

PoolTotal(pool) == SumSeq([i \in DOMAIN pool |-> pool[i].ivcAmount])

\* mutant: equal totals are ordered by owner id
SortedOwnersTiesById(hk) ==
    LET keys == KeysInOrder(hk)
        groups == GroupByOrg(hk)
        byId == StableSort([i \in DOMAIN keys |-> <<keys[i], keys[i]>>])
        keyed == [i \in DOMAIN byId |->
                     <<0 - PoolTotal(groups[byId[i][2]]), byId[i][2]>>]
        sorted == StableSort(keyed)
    IN [i \in DOMAIN sorted |-> sorted[i][2]]

\* sorted(by_org.keys(), key=lambda k: -sum(...))
SortedOwners(hk) ==
    LET keys == KeysInOrder(hk)
        groups == GroupByOrg(hk)
        keyed == [i \in DOMAIN keys |-> <<0 - PoolTotal(groups[keys[i]]), keys[i]>>]
        sorted == StableSort(keyed)
    IN [i \in DOMAIN sorted |-> sorted[i][2]]

\* remaining = [(i, a) for i, a in available if i not in used]
\* followed by remaining.sort(key=lambda x: -x[1])
RemainingOf(pool, usd) ==
    LET avail == [i \in DOMAIN pool |-> <<i, pool[i].ivcAmount>>]
    IN SelectSeq(avail, LAMBDA p : p[1] \notin usd)

SortedRemaining(pool, usd) ==
    LET rem == RemainingOf(pool, usd)
        keyed == [i \in DOMAIN rem |-> <<0 - rem[i][2], rem[i]>>]
        sorted == StableSort(keyed)
    IN [i \in DOMAIN sorted |-> sorted[i][2]]

RemainingTotal(pool, usd) ==
    LET rem == RemainingOf(pool, usd)
    IN SumSeq([i \in DOMAIN rem |-> rem[i][2]])

\* Invoice(org_id, order_ids, amounts, total)
MakeInvoice(org, pool, combo) ==
    [org_id |-> org,
     order_ids |-> [i \in DOMAIN combo |-> pool[combo[i][1]].orderId],
     amounts |-> [i \in DOMAIN combo |-> pool[combo[i][1]].ivcAmount],
     total |-> SumSeq([i \in DOMAIN combo |-> combo[i][2]])]

\* leftover_orders = [pool[i] for i in range(len(pool)) if i not in used]
LeftoverOrders(pool, usd) ==
    LET ix == SelectSeq([i \in DOMAIN pool |-> i], LAMBDA i : i \notin usd)
    IN [j \in DOMAIN ix |-> pool[ix[j]]]

\* mutant: the group's first record is lost
WholePoolLeftoverTail(pool) == Tail(pool)

\* plan.leftover[org_id] = pool   (the whole group stays unmerged)
WholePoolLeftover(pool) == pool

CurOrg == org_order[org_i]
CurPool == by_org[CurOrg]

\* lines 148-155 of one iteration of the while-loop: the remaining records,
\* and the combination find_best_combo picks unless remaining_total < target
NoCall == [called |-> FALSE, remaining |-> <<>>, combo |-> None]

LoopStep(pool, usd, tgt, msz) ==
    IF RemainingTotal(pool, usd) < tgt
    THEN NoCall
    ELSE [called |-> TRUE, remaining |-> SortedRemaining(pool, usd),
          combo |-> find_best_combo(SortedRemaining(pool, usd), tgt, msz)]

\* mutant: the loop forgets the `combo is None` exit
LoopBreaksOnTotalOnly(step) == ~step.called

\* the while-loop leaves: remaining_total < target, or combo is None
LoopBreaks(step) == ~step.called \/ step.combo = None

\* lines 126-136: filter canHk, group by orgId, order the groups
GroupOrders ==
    /\ pc = "start"
    /\ by_org' = GroupByOrg(HkOrders(orders))
    /\ org_order' = SortedOwners(HkOrders(orders))
    /\ org_i' = 1
    /\ pc' = "owner"
    /\ UNCHANGED <<orders, target, max_size, used, invoices, leftover, lastCall>>
    /\ UNCHANGED <<execVars, chanVars, cfgVars, subVars>>

\* lines 136-141: a group whose total is below target is left over whole
SkipOwner ==
    /\ pc = "owner"
    /\ org_i <= Len(org_order)
    /\ PoolTotal(CurPool) < target
    /\ leftover' = (CurOrg :> WholePoolLeftover(CurPool)) @@ leftover
    /\ org_i' = org_i + 1
    /\ used' = {}
    /\ UNCHANGED <<orders, target, max_size, pc, by_org, org_order, invoices,
                   lastCall>>
    /\ UNCHANGED <<execVars, chanVars, cfgVars, subVars>>

\* lines 147-170: one iteration of the while-loop that does not break; it
\* appends an invoice (iterating a combo that is None would raise TypeError
\* at line 159 and end optimize without a Plan)
SelectInvoice ==
    /\ pc = "owner"
    /\ org_i <= Len(org_order)
    /\ ~(PoolTotal(CurPool) < target)
    /\ LET step == LoopStep(CurPool, used, target, max_size)
       IN /\ ~LoopBreaks(step)
          /\ lastCall' = step
          /\ IF step.combo = None
             THEN /\ pc' = "raised"
                  /\ UNCHANGED <<invoices, used>>
             ELSE /\ invoices' = Append(invoices, MakeInvoice(CurOrg, CurPool, step.combo))
                  /\ used' = used \cup {step.combo[i][1] : i \in DOMAIN step.combo}
                  /\ pc' = pc
    /\ UNCHANGED <<orders, target, max_size, by_org, org_order, org_i, leftover>>
    /\ UNCHANGED <<execVars, chanVars, cfgVars, subVars>>

\* lines 150-157 and 172-174: the loop breaks, the rest becomes the leftover
FinishOwner ==
    /\ pc = "owner"
    /\ org_i <= Len(org_order)
    /\ ~(PoolTotal(CurPool) < target)
    /\ LET step == LoopStep(CurPool, used, target, max_size)
       IN /\ LoopBreaks(step)
          /\ lastCall' = step
    /\ leftover' = IF LeftoverOrders(CurPool, used) # <<>>
                   THEN (CurOrg :> LeftoverOrders(CurPool, used)) @@ leftover
                   ELSE leftover
    /\ org_i' = org_i + 1
    /\ used' = {}
    /\ UNCHANGED <<orders, target, max_size, pc, by_org, org_order, invoices>>
    /\ UNCHANGED <<execVars, chanVars, cfgVars, subVars>>

\* line 176: return plan
ReturnPlan ==
    /\ pc = "owner"
    /\ org_i > Len(org_order)
    /\ pc' = "done"
    /\ UNCHANGED <<orders, target, max_size, by_org, org_order, org_i, used,
                   invoices, leftover, lastCall>>
    /\ UNCHANGED <<execVars, chanVars, cfgVars, subVars>>

NextPlan ==
    \/ GroupOrders
    \/ SkipOwner
    \/ SelectInvoice
    \/ FinishOwner
    \/ ReturnPlan

(***************************************************************************)
(* Initial states.                                                         *)
(***************************************************************************)
EmptyMap == [k \in {} |-> <<>>]

\* the list of order dicts built from per-record choices <<orgId, amount, canHk>>
MkOrders(f) ==
    [i \in DOMAIN f |-> [orderId |-> 10 * i, orgId |-> f[i][1],
                         ivcAmount |-> f[i][2], canHk |-> f[i][3]]]

\* eligible records of every owner and amount; an ineligible record is only
\* ever filtered out, so one amount stands for all of them
RecordChoices ==
    (Owners \X Amounts \X {TRUE}) \cup (Owners \X {70} \X {FALSE})

PlanStart ==
    /\ pc = "start"
    /\ by_org = EmptyMap
    /\ org_order = <<>>
    /\ org_i = 0
    /\ used = {}
    /\ invoices = <<>>
    /\ leftover = EmptyMap
    /\ lastCall = NoCall

EmptyLedger == [completed |-> <<>>, failed |-> <<>>, skipped |-> <<>>]

NoItems == [k \in {} |-> ""]

Scalar(text) == [d |-> FALSE, v |-> text, m |-> NoItems]

Dict(members) == [d |-> TRUE, v |-> "", m |-> members]

\* load_config has not been called
CfgIdle ==
    /\ kpc = "idle"
    /\ config = Dict(NoItems)
    /\ user_file = [exists |-> FALSE, doc |-> Dict(NoItems)]

\* submit_one_invoice is not running
NoReturn == [status |-> "none", message |-> ""]

SubIdle ==
    /\ spc = "idle"
    /\ page = "none"
    /\ navs = 0
    /\ mode_from = "none"
    /\ commit_from = "none"
    /\ now = 0
    /\ recv_wait = 0
    /\ early_ack = 0
    /\ ack_status = 0
    /\ polls = 0
    /\ ready_polls = 0
    /\ finalize_calls = 0
    /\ body_requests = 0
    /\ body = "none"
    /\ page_text = "unread"
    /\ ret = NoReturn

\* batch_merge line 245: mid = [0]; no channel helper is running
ChanIdle ==
    /\ mid = 0
    /\ cpc = "idle"
    /\ calls = 0
    /\ waited = 0
    /\ elapsed = 0
    /\ outcome = "none"
    /\ ids_sent = <<>>
    /\ answered = 0
    /\ dropped = {}

\* no sleep in progress
NoDelay == [at |-> "none", secs |-> 0]

ExecIdle ==
    /\ xpc = "idle"
    /\ runs = 0
    /\ retry_limit = 0
    /\ delay_min = 0
    /\ delay_max = 0
    /\ delay = NoDelay
    /\ plan_invoices = <<>>
    /\ all_orders_map = EmptyMap
    /\ progress = EmptyLedger
    /\ disk = [exists |-> FALSE, intact |-> TRUE, data |-> EmptyLedger]
    /\ completed_set = {}
    /\ remaining = <<>>
    /\ idx = 0
    /\ attempt = 0
    /\ success = FALSE
    /\ message = ""
    /\ sent = {}
    /\ initial_completed = 0
    /\ succeeded = 0
    /\ finalized = {}
    /\ recommitted = {}
    /\ run_log = <<>>
    /\ disk_at_start = [exists |-> FALSE, intact |-> TRUE, data |-> EmptyLedger]

\* general inputs: several owners, eligible and ineligible records
Init ==
    /\ \E n \in 0..MaxOrders :
         \E f \in [1..n -> RecordChoices] : orders = MkOrders(f)
    /\ target \in Targets
    /\ max_size \in {2, 3}
    /\ PlanStart
    /\ ExecIdle
    /\ ChanIdle
    /\ CfgIdle
    /\ SubIdle

Next == NextPlan

Spec == Init /\ [][Next]_vars

\* single-owner inputs, all eligible, listed by non-increasing amount
PoolInputs ==
    {f \in UNION {[1..n -> PoolAmounts] : n \in 0..MaxPool} :
        \A i \in DOMAIN f : i = 1 \/ f[i - 1] >= f[i]}

InitPool ==
    /\ \E f \in PoolInputs : orders = MkOrders([i \in DOMAIN f |-> <<1, f[i], TRUE>>])
    /\ target \in Targets
    /\ max_size \in {2, 3}
    /\ PlanStart
    /\ ExecIdle
    /\ ChanIdle
    /\ CfgIdle
    /\ SubIdle

SpecPool == InitPool /\ [][Next]_vars

\* single-owner inputs under every kind of target and max_size, also the
\* non-positive ones
ParamInputs ==
    {f \in UNION {[1..n -> PoolAmounts] : n \in 0..MaxParamPool} :
        \A i \in DOMAIN f : i = 1 \/ f[i - 1] >= f[i]}

InitParams ==
    /\ \E f \in ParamInputs : orders = MkOrders([i \in DOMAIN f |-> <<1, f[i], TRUE>>])
    /\ target \in {0 - 50, 0, 50, 100}
    /\ max_size \in {0 - 1, 0, 1, 2}
    /\ PlanStart
    /\ ExecIdle
    /\ ChanIdle
    /\ CfgIdle
    /\ SubIdle

SpecParams == InitParams /\ [][Next]_vars

(***************************************************************************)
(* find_best_combo called on its own.                                      *)
(***************************************************************************)
ComboInputs ==
    {f \in UNION {[1..n -> ComboAmounts] : n \in 0..MaxComboPool} :
        \A i \in DOMAIN f : i = 1 \/ f[i - 1] >= f[i]}

InitCombo ==
    /\ \E f \in ComboInputs :
         lastCall = [called |-> FALSE,
                     remaining |-> [i \in DOMAIN f |-> <<i, f[i]>>],
                     combo |-> None]
    /\ target \in Targets
    /\ max_size \in {2, 3, 4}
    /\ pc = "combo"
    /\ orders = <<>>
    /\ by_org = EmptyMap
    /\ org_order = <<>>
    /\ org_i = 0
    /\ used = {}
    /\ invoices = <<>>
    /\ leftover = EmptyMap
    /\ ExecIdle
    /\ ChanIdle
    /\ CfgIdle
    /\ SubIdle

CallFindBestCombo ==
    /\ pc = "combo"
    /\ lastCall' = [called |-> TRUE, remaining |-> lastCall.remaining,
                    combo |-> find_best_combo(lastCall.remaining, target, max_size)]
    /\ pc' = "combo_done"
    /\ UNCHANGED <<orders, target, max_size, by_org, org_order, org_i, used,
                   invoices, leftover>>
    /\ UNCHANGED <<execVars, chanVars, cfgVars, subVars>>

NextCombo == CallFindBestCombo

SpecCombo == InitCombo /\ [][NextCombo]_vars

(***************************************************************************)
(* Properties of the planner.                                              *)
(***************************************************************************)
NoDuplicates(s) == \A i, j \in DOMAIN s : i # j => s[i] # s[j]

\* the canHk-eligible input records of one owner, in input order
EligibleOf(o) == SelectSeq(orders, LAMBDA r : r.canHk /\ r.orgId = o)

RECURSIVE InvoiceIdsOf(_, _)
InvoiceIdsOf(invs, o) ==
    IF invs = <<>> THEN <<>>
    ELSE (IF invs[1].org_id = o THEN invs[1].order_ids ELSE <<>>)
         \o InvoiceIdsOf(Tail(invs), o)

LeftoverOf(o) == IF o \in DOMAIN leftover THEN leftover[o] ELSE <<>>

LeftoverIdsOf(o) == [i \in DOMAIN LeftoverOf(o) |-> LeftoverOf(o)[i].orderId]

InvoicesOf(o) == SelectSeq(invoices, LAMBDA inv : inv.org_id = o)

\* C1: in the returned Plan, for every owner id, the order ids of that owner's
\* invoices together with that owner's leftover list are exactly that owner's
\* canHk-eligible input records, each exactly once; ineligible records and
\* records of another owner appear nowhere.
C1_Partition ==
    pc = "done" =>
        /\ DOMAIN leftover \subseteq Owners
        /\ \A k \in DOMAIN invoices : invoices[k].org_id \in Owners
        /\ \A o \in Owners :
             LET ids == InvoiceIdsOf(invoices, o) \o LeftoverIdsOf(o)
             IN /\ NoDuplicates(ids)
                /\ Range(ids) = {r.orderId : r \in Range(EligibleOf(o))}
                /\ Range(LeftoverOf(o)) \subseteq Range(EligibleOf(o))

C1_Witness ==
    /\ pc = "done"
    /\ \E i \in DOMAIN orders : ~orders[i].canHk
    /\ \E o, q \in Owners :
         /\ o # q
         /\ InvoicesOf(o) # <<>>
         /\ InvoicesOf(q) = <<>> /\ LeftoverOf(q) # <<>>

\* C2: every Invoice of the Plan has total >= target and at most max_size
\* records.
C2_Threshold ==
    \A k \in DOMAIN invoices :
        /\ invoices[k].total >= target
        /\ Len(invoices[k].order_ids) <= max_size
        /\ Len(invoices[k].amounts) <= max_size

\* the size limit bites: records worth a further invoice stay unmerged
C2_Witness ==
    /\ pc = "done"
    /\ \E k \in DOMAIN invoices : Len(invoices[k].order_ids) = max_size
    /\ \E o \in DOMAIN leftover :
         /\ PoolTotal(leftover[o]) >= target
         /\ Len(leftover[o]) > max_size

\* the largest number of pairwise-disjoint groups of 2..msz amounts out of the
\* bag `amts` (a sequence), each with total >= tgt
SubsetTotal(amts, S) == SumSeq([i \in 1..Len(amts) |-> IF i \in S THEN amts[i] ELSE 0])

ValidGroups(amts, S, tgt, msz) ==
    {G \in SUBSET S : /\ Cardinality(G) >= 2
                      /\ Cardinality(G) <= msz
                      /\ SubsetTotal(amts, G) >= tgt}

SetMax(S) == CHOOSE x \in S : \A y \in S : y <= x
SetMin(S) == CHOOSE x \in S : \A y \in S : x <= y

RECURSIVE MaxGroups(_, _, _, _)
MaxGroups(amts, S, tgt, msz) ==
    IF S = {} THEN 0
    ELSE LET m == SetMin(S)
             with == {1 + MaxGroups(amts, S \ G, tgt, msz) :
                         G \in {H \in ValidGroups(amts, S, tgt, msz) : m \in H}}
         IN SetMax(with \cup {MaxGroups(amts, S \ {m}, tgt, msz)})

EligibleAmounts(o) == [i \in DOMAIN EligibleOf(o) |-> EligibleOf(o)[i].ivcAmount]

\* C3: for every owner the number of invoices equals the maximum number of
\* pairwise-disjoint groups (2..max_size records, total >= target) that can
\* be formed from that owner's eligible records.
C3_MaxInvoiceCount ==
    pc = "done" =>
        \A o \in Owners :
            Len(InvoicesOf(o)) =
                MaxGroups(EligibleAmounts(o), DOMAIN EligibleOf(o), target, max_size)

FirstEligiblePos(o) ==
    SetMin({i \in DOMAIN orders : orders[i].canHk /\ orders[i].orgId = o})

OwnerTotal(o) == PoolTotal(EligibleOf(o))

PosIn(seq, x) == SetMin({i \in DOMAIN seq : seq[i] = x})

\* C5 as claimed: owner groups are processed by descending group total, and
\* of two owners with equal totals the one with the smaller owner id first.
C5_TiesByOwnerId ==
    pc \in {"owner", "done"} =>
        \A i, j \in DOMAIN org_order :
            i < j =>
                \/ OwnerTotal(org_order[i]) > OwnerTotal(org_order[j])
                \/ /\ OwnerTotal(org_order[i]) = OwnerTotal(org_order[j])
                   /\ org_order[i] < org_order[j]

\* C5 as amended: owner groups are processed by descending group total, and
\* of two owners with equal totals the one whose first eligible record comes
\* earlier in the input first; the invoices of the Plan appear in that owner
\* order.
C5_TiesByFirstAppearance ==
    pc \in {"owner", "done"} =>
        /\ Range(org_order) = {o \in Owners : EligibleOf(o) # <<>>}
        /\ NoDuplicates(org_order)
        /\ \A i, j \in DOMAIN org_order :
             i < j =>
                \/ OwnerTotal(org_order[i]) > OwnerTotal(org_order[j])
                \/ /\ OwnerTotal(org_order[i]) = OwnerTotal(org_order[j])
                   /\ FirstEligiblePos(org_order[i]) < FirstEligiblePos(org_order[j])
        /\ \A a, b \in DOMAIN invoices :
             a < b => PosIn(org_order, invoices[a].org_id)
                          <= PosIn(org_order, invoices[b].org_id)

\* two owners with equal totals, the larger id first in the input, both
\* with an invoice in the Plan
C5_Witness ==
    /\ pc = "done"
    /\ Len(org_order) = 2
    /\ OwnerTotal(1) = OwnerTotal(2)
    /\ FirstEligiblePos(2) < FirstEligiblePos(1)
    /\ InvoicesOf(1) # <<>>
    /\ InvoicesOf(2) # <<>>

(***************************************************************************)
(* Properties of find_best_combo, stated over all subsets of the pool.     *)
(***************************************************************************)
CallAmounts == AmountsOf(lastCall.remaining)

\* the totals >= target of the combinations of the pool with a size in K
ReachingTotals(amts, K, tgt) ==
    {SubsetTotal(amts, G) :
        G \in {H \in SUBSET (1..Len(amts)) :
                  Cardinality(H) \in K /\ SubsetTotal(amts, H) >= tgt}}

AllowedSizes(n, msz) == {k \in 2..n : k <= msz}

ComboTotal(combo) == SumSeq([i \in DOMAIN combo |-> combo[i][2]])

\* the returned pairs are distinct entries of the pool
IsComboOf(combo, awi) ==
    /\ Range(combo) \subseteq Range(awi)
    /\ NoDuplicates([i \in DOMAIN combo |-> combo[i][1]])

TightSizes(amts, tgt, msz) ==
    {k \in AllowedSizes(Len(amts), msz) :
        \E t \in ReachingTotals(amts, {k}, tgt) : TightEnough(t, tgt)}

ExampleOrders ==
    MkOrders(<< <<1, 70, TRUE>>, <<1, 60, TRUE>>, <<1, 50, TRUE>>, <<1, 40, TRUE>> >>)

\* C7: for one owner with amounts [70, 60, 50, 40], target 100, max_size 3
\* the Plan is {60, 40} (total 100), then {70, 50} (total 120), no leftover;
\* and every selection step picks, at the first size that has a combination
\* reaching target within 10% of it, a minimum-total combination of that
\* size reaching target.
C7_TightestFirst ==
    /\ (pc = "done" /\ orders = ExampleOrders /\ target = 100 /\ max_size = 3) =>
          /\ invoices = << [org_id |-> 1, order_ids |-> <<20, 40>>,
                            amounts |-> <<60, 40>>, total |-> 100],
                           [org_id |-> 1, order_ids |-> <<10, 30>>,
                            amounts |-> <<70, 50>>, total |-> 120] >>
          /\ leftover = EmptyMap
    /\ (pc \in {"owner", "done"} /\ lastCall.called) =>
          LET tight == TightSizes(CallAmounts, target, max_size)
          IN tight # {} =>
                /\ lastCall.combo # None
                /\ Len(lastCall.combo) = SetMin(tight)
                /\ ComboTotal(lastCall.combo) =
                       SetMin(ReachingTotals(CallAmounts, {SetMin(tight)}, target))

C7_Witness ==
    /\ pc = "done"
    /\ orders = ExampleOrders
    /\ target = 100
    /\ max_size = 3
    /\ Len(invoices) = 2

\* C8: an owner whose eligible records total less than target gets no
\* invoice, and its leftover list holds all its eligible records
\* (amounts [70, 20] with target 100 give leftover [70, 20]).
C8_BelowTargetAllLeftover ==
    pc = "done" =>
        \A o \in Owners :
            (EligibleOf(o) # <<>> /\ OwnerTotal(o) < target) =>
                /\ InvoicesOf(o) = <<>>
                /\ LeftoverOf(o) = EligibleOf(o)

C8_Witness ==
    /\ pc = "done"
    /\ target = 100
    /\ \E o, q \in Owners :
         /\ EligibleAmounts(o) = <<70, 20>>
         /\ LeftoverOf(o) # <<>>
         /\ InvoicesOf(q) # <<>>

\* C9 as claimed: planning fails, yielding no Plan, when target <= 0 or
\* max_size <= 0.
C9_NoPlanOnMalformed ==
    (target <= 0 \/ max_size <= 0) => pc # "done"

\* C9 as amended: optimize has no failure mode for target or max_size: for
\* every target and max_size, positive or not, it raises nothing and goes on
\* to return a Plan; with max_size <= 1 that Plan has no invoice and every
\* record is left over.
C9_AlwaysReturnsPlan ==
    /\ pc \in {"start", "owner", "done"}
    /\ pc = "owner" => org_i \in 1..(Len(org_order) + 1)
    /\ (pc = "done" /\ max_size <= 1) =>
          /\ invoices = <<>>
          /\ \A o \in Owners : LeftoverOf(o) = EligibleOf(o)

\* a Plan with an invoice is returned for a non-positive target
C9_Witness ==
    /\ pc = "done"
    /\ target <= 0
    /\ invoices # <<>>

(***************************************************************************)
(* main() and batch_merge(ws_url): the resumable executor.                 *)
(* One call of submit_one_invoice is one step; what the remote side        *)
(* answers is the environment's choice.  The "time" field of a ledger      *)
(* entry is left out.  The process can be stopped at any point; what it    *)
(* held in memory is then gone and the ledger file stays as it is.         *)
(***************************************************************************)
\* tuple(sorted(inv["order_ids"]))
SortedTuple(ids) ==
    LET sorted == StableSort([i \in DOMAIN ids |-> <<ids[i], ids[i]>>])
    IN [i \in DOMAIN sorted |-> sorted[i][2]]

\* json.load(f) of the ledger file succeeds: a file cut short is not JSON
Loads(file) == ~file.exists \/ file.intact

\* load_progress(path)
load_progress(file) == IF file.exists THEN file.data ELSE EmptyLedger

\* open(path, "w"): the file is emptied before anything is written; until
\* the close it holds nothing or a prefix of the new content
open_for_write(file) == [exists |-> TRUE, intact |-> FALSE, data |-> EmptyLedger]

\* save_progress(progress, path), once json.dump is through and the file closed
save_progress(prog) == [exists |-> TRUE, intact |-> TRUE, data |-> prog]

\* mutant: the keys are the id lists as written, not sorted
CompletedSetUnsorted(prog) ==
    {prog.completed[i].order_ids : i \in DOMAIN prog.completed}

\* completed_set = set(tuple(sorted(inv["order_ids"])) for inv in progress["completed"])
CompletedSet(prog) ==
    {SortedTuple(prog.completed[i].order_ids) : i \in DOMAIN prog.completed}

\* mutant: every plan invoice is (re)submitted
RemainingUnfiltered(invs, cset) == invs

\* remaining = [inv for inv in invoices if tuple(sorted(inv["order_ids"])) not in completed_set]
RemainingInvoices(invs, cset) ==
    SelectSeq(invs, LAMBDA inv : SortedTuple(inv.order_ids) \notin cset)

\* mutant: only absent records count, originalOrderInfo is not looked at
FirstAbsentOrder(inv) ==
    LET bad == {i \in DOMAIN inv.order_ids :
                   inv.order_ids[i] \notin DOMAIN all_orders_map}
    IN IF bad = {} THEN 0 ELSE CHOOSE i \in bad : \A j \in bad : i <= j

\* for oid in order_ids: the first record that is absent or lacks
\* originalOrderInfo (0: there is none)
FirstBadOrder(inv) ==
    LET bad == {i \in DOMAIN inv.order_ids :
                   \/ inv.order_ids[i] \notin DOMAIN all_orders_map
                   \/ ~all_orders_map[inv.order_ids[i]]}
    IN IF bad = {} THEN 0 ELSE CHOOSE i \in bad : \A j \in bad : i <= j

\* what one call of submit_one_invoice can come to.  contacted: a driver
\* command was sent; committed: submitMerge() was called on the page;
\* finalized: the remote side carried the merge out.
\*   - a data error before any driver command (lines 53-61);
\*   - success (lines 229, 233);
\*   - a failure the function returns: the remote side rejects the merge
\*     (line 235), or a step before does not get through;
\*   - the merge is carried out but its result is not seen before the
\*     deadline (line 230), or run_js raises while reading the page (line 227);
\*   - an exception of the driver, caught at lines 295-298, before or after
\*     the first command went out.
SubmitOutcomes(inv) ==
    IF FirstBadOrder(inv) # 0
    THEN IF inv.order_ids[FirstBadOrder(inv)] \notin DOMAIN all_orders_map
         THEN {[success |-> FALSE, message |-> "Order not found in data",
                contacted |-> FALSE, committed |-> FALSE, finalized |-> FALSE]}
         ELSE {[success |-> FALSE, message |-> "Order missing originalOrderInfo",
                contacted |-> FALSE, committed |-> FALSE, finalized |-> FALSE]}
    ELSE {[success |-> TRUE, message |-> "allSuccess=true",
           contacted |-> TRUE, committed |-> TRUE, finalized |-> TRUE],
          [success |-> FALSE, message |-> "Server rejected",
           contacted |-> TRUE, committed |-> TRUE, finalized |-> FALSE],
          [success |-> FALSE, message |-> "appDoMergeHkfpReq timeout",
           contacted |-> TRUE, committed |-> TRUE, finalized |-> TRUE],
          [success |-> FALSE, message |-> "Exception",
           contacted |-> TRUE, committed |-> FALSE, finalized |-> FALSE],
          [success |-> FALSE, message |-> "Exception",
           contacted |-> FALSE, committed |-> FALSE, finalized |-> FALSE]}

\* record = {...}
LedgerRecord(inv, msg) ==
    [org_id |-> inv.org_id, order_ids |-> inv.order_ids, total |-> inv.total,
     message |-> msg]

\* mutant: a failure takes the place of the failures recorded before
RecordOutcomeLatestFailure(prog, ok, rec) ==
    IF ok THEN [prog EXCEPT !.completed = Append(@, rec)]
    ELSE [prog EXCEPT !.failed = <<rec>>]

\* if success: progress["completed"].append(record) else: progress["failed"].append(record)
RecordOutcome(prog, ok, rec) ==
    IF ok THEN [prog EXCEPT !.completed = Append(@, rec)]
    ELSE [prog EXCEPT !.failed = Append(@, rec)]

\* random.uniform(a, b): the shortest and the longest time it can return
Uniform(a, b) == {a, b}

\* mutant: the backoff is drawn between the configured bounds
BackoffIntervalConfigured(lo, hi) == Uniform(lo, hi)

\* delay = random.uniform(3, 6), line 288
BackoffInterval(lo, hi) == Uniform(3, 6)

\* delay = random.uniform(exec_cfg["delay_min"], exec_cfg["delay_max"]), line 321
InvoiceDelayInterval(lo, hi) == Uniform(lo, hi)

\* for attempt in range(1, retry_limit + 1): the loop body runs at all
FirstStepOfInvoice == IF retry_limit >= 1 THEN "attempt" ELSE "record"

\* mutant: a failed attempt is not tried again
AfterAttemptNoRetry(out, n) == "record"

\* mutant: an exception of the driver ends the run
AfterAttemptRaising(out, n) ==
    IF out.message = "Exception" THEN "aborted"
    ELSE IF out.success \/ n = retry_limit THEN "record" ELSE "attempt"

\* if success: break, else the next pass of the loop, if there is one;
\* an exception is caught (lines 295-298) and counts as a failure
AfterAttempt(out, n) ==
    IF out.success \/ n = retry_limit THEN "record" ELSE "attempt"

\* mutant: a failed connection leaves an empty ledger file behind
LedgerAfterAbortReset(file) == save_progress(EmptyLedger)

\* the ledger file when the run ends before line 318 was ever reached
LedgerAfterAbort(file) == file

\* main, lines 351-355: find_invoice_page() returns the page's address
FindInvoicePage ==
    /\ xpc = "main"
    /\ xpc' = "start"
    /\ UNCHANGED <<runs, retry_limit, delay_min, delay_max, delay,
                   plan_invoices, all_orders_map, progress,
                   disk, completed_set, remaining, idx, attempt, success,
                   message, sent, initial_completed, succeeded, finalized,
                   recommitted, run_log, disk_at_start>>
    /\ UNCHANGED <<planVars, chanVars, cfgVars, subVars>>

\* main, lines 351-359: find_invoice_page() returns None or raises
PageNotFound ==
    /\ xpc = "main"
    /\ xpc' = "aborted"
    /\ disk' = LedgerAfterAbort(disk)
    /\ UNCHANGED <<runs, retry_limit, delay_min, delay_max, delay,
                   plan_invoices, all_orders_map, progress,
                   completed_set, remaining, idx, attempt, success,
                   message, sent, initial_completed, succeeded, finalized,
                   recommitted, run_log, disk_at_start>>
    /\ UNCHANGED <<planVars, chanVars, cfgVars, subVars>>

\* lines 240-268: read plan and ledger, work out what remains
StartRun ==
    /\ xpc = "start"
    /\ Loads(disk)
    /\ progress' = load_progress(disk)
    /\ completed_set' = CompletedSet(load_progress(disk))
    /\ initial_completed' = Len(load_progress(disk).completed)
    /\ remaining' = RemainingInvoices(plan_invoices, CompletedSet(load_progress(disk)))
    /\ xpc' = IF RemainingInvoices(plan_invoices, CompletedSet(load_progress(disk))) = <<>>
              THEN "done" ELSE "connect"
    /\ UNCHANGED <<runs, retry_limit, delay_min, delay_max, delay,
                   plan_invoices, all_orders_map, disk, idx,
                   attempt, success, message, sent, succeeded, finalized,
                   recommitted, run_log, disk_at_start>>
    /\ UNCHANGED <<planVars, chanVars, cfgVars, subVars>>

\* line 254: json.load raises on a ledger file that was cut short; main
\* catches the exception (lines 357-360)
LedgerUnreadable ==
    /\ xpc = "start"
    /\ ~Loads(disk)
    /\ xpc' = "aborted"
    /\ disk' = LedgerAfterAbort(disk)
    /\ UNCHANGED <<runs, retry_limit, delay_min, delay_max, delay,
                   plan_invoices, all_orders_map, progress,
                   completed_set, remaining, idx, attempt, success,
                   message, sent, initial_completed, succeeded, finalized,
                   recommitted, run_log, disk_at_start>>
    /\ UNCHANGED <<planVars, chanVars, cfgVars, subVars>>

\* line 270: websockets.connect succeeds, the for-loop takes the first invoice
Connect ==
    /\ xpc = "connect"
    /\ idx' = 1
    /\ xpc' = FirstStepOfInvoice
    /\ UNCHANGED <<runs, retry_limit, delay_min, delay_max, delay,
                   plan_invoices, all_orders_map, progress,
                   disk, completed_set, remaining, attempt, success, message,
                   sent, initial_completed, succeeded, finalized, recommitted,
                   run_log, disk_at_start>>
    /\ UNCHANGED <<planVars, chanVars, cfgVars, subVars>>

\* line 270: websockets.connect raises; batch_merge ends with the exception
ConnectFails ==
    /\ xpc = "connect"
    /\ xpc' = "aborted"
    /\ disk' = LedgerAfterAbort(disk)
    /\ UNCHANGED <<runs, retry_limit, delay_min, delay_max, delay,
                   plan_invoices, all_orders_map, progress,
                   completed_set, remaining, idx, attempt, success,
                   message, sent, initial_completed, succeeded, finalized,
                   recommitted, run_log, disk_at_start>>
    /\ UNCHANGED <<planVars, chanVars, cfgVars, subVars>>

\* lines 287-290: before every attempt but the first, sleep for a time drawn
\* from the backoff interval
RetryDelay ==
    /\ xpc = "attempt"
    /\ attempt >= 1
    /\ attempt < retry_limit
    /\ delay.at # "retry"
    /\ \E d \in BackoffInterval(delay_min, delay_max) :
         delay' = [at |-> "retry", secs |-> d]
    /\ UNCHANGED <<xpc, runs, retry_limit, delay_min, delay_max, plan_invoices,
                   all_orders_map, progress, disk, completed_set, remaining,
                   idx, attempt, success, message, sent, initial_completed,
                   succeeded, finalized, recommitted, run_log, disk_at_start>>
    /\ UNCHANGED <<planVars, chanVars, cfgVars, subVars>>

\* lines 286-301: one pass of the retry loop
Attempt ==
    /\ xpc = "attempt"
    /\ attempt < retry_limit
    /\ attempt >= 1 => delay.at = "retry"
    /\ \E out \in SubmitOutcomes(remaining[idx]) :
         LET key == SortedTuple(remaining[idx].order_ids) IN
         /\ success' = out.success
         /\ message' = out.message
         /\ sent' = IF out.contacted THEN sent \cup {key} ELSE sent
         /\ succeeded' = IF out.success THEN succeeded + 1 ELSE succeeded
         /\ recommitted' = IF out.committed /\ key \in finalized
                           THEN recommitted \cup {key} ELSE recommitted
         /\ finalized' = IF out.finalized THEN finalized \cup {key} ELSE finalized
         /\ xpc' = AfterAttempt(out, attempt + 1)
    /\ attempt' = attempt + 1
    /\ delay' = NoDelay
    /\ UNCHANGED <<runs, retry_limit, delay_min, delay_max, plan_invoices, all_orders_map, progress,
                   disk, completed_set, remaining, idx, initial_completed,
                   run_log, disk_at_start>>
    /\ UNCHANGED <<planVars, chanVars, cfgVars, subVars>>

\* lines 303-318: append the outcome and open the ledger file for writing
Record ==
    /\ xpc = "record"
    /\ progress' = RecordOutcome(progress, success,
                                 LedgerRecord(remaining[idx], message))
    /\ disk' = open_for_write(disk)
    /\ run_log' = Append(run_log,
                         [key |-> SortedTuple(remaining[idx].order_ids),
                          attempts |-> attempt, success |-> success,
                          message |-> message])
    /\ xpc' = "saving"
    /\ delay' = NoDelay
    /\ UNCHANGED <<runs, retry_limit, delay_min, delay_max,
                   plan_invoices, all_orders_map,
                   completed_set, remaining, idx, attempt, success, message,
                   sent, initial_completed, succeeded, finalized, recommitted,
                   disk_at_start>>
    /\ UNCHANGED <<planVars, chanVars, cfgVars, subVars>>

\* lines 318-323: the ledger is written and the file closed; on to the next invoice
SaveDone ==
    /\ xpc = "saving"
    /\ disk' = save_progress(progress)
    /\ IF idx < Len(remaining)
       THEN /\ idx' = idx + 1
            /\ attempt' = 0
            /\ success' = FALSE
            /\ message' = ""
            /\ xpc' = FirstStepOfInvoice
            /\ \E d \in InvoiceDelayInterval(delay_min, delay_max) :
                 delay' = [at |-> "next", secs |-> d]
       ELSE /\ xpc' = "done"
            /\ UNCHANGED <<idx, attempt, success, message, delay>>
    /\ UNCHANGED <<runs, retry_limit, delay_min, delay_max, plan_invoices, all_orders_map, progress,
                   completed_set, remaining, sent, initial_completed, succeeded,
                   finalized, recommitted, run_log, disk_at_start>>
    /\ UNCHANGED <<planVars, chanVars, cfgVars, subVars>>

\* a new process holds nothing of the earlier one
FreshMemory ==
    /\ progress' = EmptyLedger
    /\ completed_set' = {}
    /\ remaining' = <<>>
    /\ idx' = 0
    /\ attempt' = 0
    /\ success' = FALSE
    /\ message' = ""
    /\ sent' = {}
    /\ initial_completed' = 0
    /\ succeeded' = 0
    /\ run_log' = <<>>
    /\ delay' = NoDelay

\* the process is stopped from outside: what it held in memory is gone, the
\* ledger file and the remote side stay as they are
Kill ==
    /\ xpc \in {"main", "start", "connect", "attempt", "record", "saving"}
    /\ xpc' = "killed"
    /\ FreshMemory
    /\ UNCHANGED <<runs, retry_limit, delay_min, delay_max, plan_invoices, all_orders_map, disk,
                   finalized, recommitted, disk_at_start>>
    /\ UNCHANGED <<planVars, chanVars, cfgVars, subVars>>

\* the operator starts the executor again over the same plan: a new process
Rerun ==
    /\ xpc \in {"done", "aborted", "killed"}
    /\ runs < MaxRuns
    /\ runs' = runs + 1
    /\ xpc' = "main"
    /\ FreshMemory
    /\ disk_at_start' = disk
    /\ UNCHANGED <<retry_limit, delay_min, delay_max, plan_invoices, all_orders_map, disk, finalized,
                   recommitted>>
    /\ UNCHANGED <<planVars, chanVars, cfgVars, subVars>>

NextExec ==
    \/ FindInvoicePage
    \/ PageNotFound
    \/ StartRun
    \/ LedgerUnreadable
    \/ Connect
    \/ ConnectFails
    \/ RetryDelay
    \/ Attempt
    \/ Record
    \/ SaveDone
    \/ Kill
    \/ Rerun

\* the invoices a plan file may hold: the second and the third cover the same
\* records in a different order
PlanInvoiceChoices ==
    {[org_id |-> 1, order_ids |-> <<20, 40>>, total |-> 100],
     [org_id |-> 1, order_ids |-> <<30, 10>>, total |-> 120],
     [org_id |-> 2, order_ids |-> <<10, 30>>, total |-> 120]}

\* save_plan writes what optimize returns: no record is in two invoices
DisjointInvoices(p) ==
    \A i, j \in DOMAIN p :
        i # j => Range(p[i].order_ids) \cap Range(p[j].order_ids) = {}

PlanFiles ==
    {p \in UNION {[1..n -> PlanInvoiceChoices] : n \in 0..MaxPlan} :
        DisjointInvoices(p)}

\* ledger files left by earlier runs (or none)
LedgerEntryChoices ==
    {LedgerRecord(inv, "allSuccess=true") : inv \in PlanInvoiceChoices}

RejectedEntry ==
    LedgerRecord([org_id |-> 1, order_ids |-> <<20, 40>>, total |-> 100],
                 "Server rejected")

\* an entry of the skipped list, which batch_merge itself never writes
SkippedEntry ==
    LedgerRecord([org_id |-> 2, order_ids |-> <<50>>, total |-> 50], "skipped")

LedgerFiles ==
    {[exists |-> FALSE, intact |-> TRUE, data |-> EmptyLedger],
     [exists |-> TRUE, intact |-> TRUE,
      data |-> [completed |-> <<>>, failed |-> <<RejectedEntry>>, skipped |-> <<>>]],
     [exists |-> TRUE, intact |-> TRUE,
      data |-> [completed |-> <<>>, failed |-> <<RejectedEntry>>,
                skipped |-> <<SkippedEntry>>]]}
    \cup
    {[exists |-> TRUE, intact |-> TRUE,
      data |-> [completed |-> c, failed |-> <<>>, skipped |-> <<>>]] :
        c \in {d \in UNION {[1..n -> LedgerEntryChoices] : n \in 0..MaxDone} :
                  DisjointInvoices(d)}}

\* order data: complete, or order 40 without originalOrderInfo, or absent
OrderDataChoices ==
    {[i \in {10, 20, 30, 40} |-> TRUE],
     [i \in {10, 20, 30, 40} |-> i # 40],
     [i \in {10, 20, 30} |-> TRUE]}

\* DEFAULT_CONFIG["execution"]: delay_min and delay_max
DEFAULT_DELAY == <<4, 9>>

\* execution.delay_min and delay_max: the defaults, or a user's own
DelayBoundChoices == {DEFAULT_DELAY, <<1, 2>>, <<7, 7>>}

PlanIdle ==
    /\ orders = <<>>
    /\ target = 0
    /\ max_size = 0
    /\ pc = "idle"
    /\ by_org = EmptyMap
    /\ org_order = <<>>
    /\ org_i = 0
    /\ used = {}
    /\ invoices = <<>>
    /\ leftover = EmptyMap
    /\ lastCall = NoCall

InitExec ==
    /\ xpc = "main"
    /\ runs = 1
    /\ retry_limit \in {0, 1, 2}
    /\ delay_min = DEFAULT_DELAY[1]
    /\ delay_max = DEFAULT_DELAY[2]
    /\ delay = NoDelay
    /\ plan_invoices \in PlanFiles
    /\ all_orders_map \in OrderDataChoices
    /\ disk \in LedgerFiles
    /\ progress = EmptyLedger
    /\ completed_set = {}
    /\ remaining = <<>>
    /\ idx = 0
    /\ attempt = 0
    /\ success = FALSE
    /\ message = ""
    /\ sent = {}
    /\ initial_completed = 0
    /\ succeeded = 0
    /\ finalized = CompletedSet(disk.data)
    /\ recommitted = {}
    /\ run_log = <<>>
    /\ disk_at_start = disk
    /\ PlanIdle
    /\ ChanIdle
    /\ CfgIdle
    /\ SubIdle

SpecExec == InitExec /\ [][NextExec]_vars

\* the executor over one plan of two invoices and sound order data, with the
\* execution section of the configuration varied
InitRetry ==
    /\ xpc = "main"
    /\ runs = 1
    /\ retry_limit \in {1, 2, 3}
    /\ \E b \in DelayBoundChoices : delay_min = b[1] /\ delay_max = b[2]
    /\ delay = NoDelay
    /\ plan_invoices = <<[org_id |-> 1, order_ids |-> <<20, 40>>, total |-> 100],
                         [org_id |-> 1, order_ids |-> <<30, 10>>, total |-> 120]>>
    /\ all_orders_map = [i \in {10, 20, 30, 40} |-> TRUE]
    /\ disk = [exists |-> FALSE, intact |-> TRUE, data |-> EmptyLedger]
    /\ progress = EmptyLedger
    /\ completed_set = {}
    /\ remaining = <<>>
    /\ idx = 0
    /\ attempt = 0
    /\ success = FALSE
    /\ message = ""
    /\ sent = {}
    /\ initial_completed = 0
    /\ succeeded = 0
    /\ finalized = {}
    /\ recommitted = {}
    /\ run_log = <<>>
    /\ disk_at_start = disk
    /\ PlanIdle
    /\ ChanIdle
    /\ CfgIdle
    /\ SubIdle

SpecRetry == InitRetry /\ [][NextExec]_vars

(***************************************************************************)
(* The planner entry point (optimize.py main) followed by the executor     *)
(* over the plan it saved.                                                 *)
(***************************************************************************)
\* mutant: the ids are taken from the failed entries
done_ids_of_failed(prog) ==
    UNION {Range(prog.failed[i].order_ids) : i \in DOMAIN prog.failed}

\* for inv in progress.get("completed", []): done_ids.update(inv.get("order_ids", []))
done_ids(prog) ==
    UNION {Range(prog.completed[i].order_ids) : i \in DOMAIN prog.completed}

\* orders = [o for o in all_orders if o['orderId'] not in done_ids]
NotDone(all, done) == SelectSeq(all, LAMBDA o : o.orderId \notin done)

\* save_plan writes the invoices of the plan; batch_merge reads them back
\* and uses org_id, order_ids and total
PlanFileInvoices(invs) ==
    [k \in DOMAIN invs |-> [org_id |-> invs[k].org_id,
                            order_ids |-> invs[k].order_ids,
                            total |-> invs[k].total]]

\* main, lines 233-248: read the orders, leave out those of completed entries
ExcludeCompleted ==
    /\ pc = "main"
    /\ Loads(disk)
    /\ orders' = NotDone(orders, done_ids(load_progress(disk)))
    /\ pc' = "start"
    /\ UNCHANGED <<target, max_size, by_org, org_order, org_i, used, invoices,
                   leftover, lastCall>>
    /\ UNCHANGED <<execVars, chanVars, cfgVars, subVars>>

\* main, line 244: json.load raises on a ledger file that was cut short
ProgressUnreadable ==
    /\ pc = "main"
    /\ ~Loads(disk)
    /\ pc' = "raised"
    /\ UNCHANGED <<orders, target, max_size, by_org, org_order, org_i, used,
                   invoices, leftover, lastCall>>
    /\ UNCHANGED <<execVars, chanVars, cfgVars, subVars>>

\* main, line 252: save_plan; the operator then starts batch_merge, which
\* reads the plan file (lines 247-253)
SavePlan ==
    /\ pc = "done"
    /\ xpc = "idle"
    /\ plan_invoices' = PlanFileInvoices(invoices)
    /\ xpc' = "main"
    /\ runs' = 1
    /\ retry_limit' \in {1, 2}
    /\ delay_min' = DEFAULT_DELAY[1]
    /\ delay_max' = DEFAULT_DELAY[2]
    /\ finalized' = CompletedSet(load_progress(disk))
    /\ disk_at_start' = disk
    /\ UNCHANGED <<delay, all_orders_map, progress, disk, completed_set,
                   remaining, idx, attempt, success, message, sent,
                   initial_completed, succeeded, recommitted, run_log>>
    /\ UNCHANGED <<planVars, chanVars, cfgVars, subVars>>

NextReplan ==
    \/ ExcludeCompleted
    \/ ProgressUnreadable
    \/ GroupOrders
    \/ SkipOwner
    \/ SelectInvoice
    \/ FinishOwner
    \/ ReturnPlan
    \/ SavePlan
    \/ FindInvoicePage
    \/ PageNotFound
    \/ StartRun
    \/ LedgerUnreadable
    \/ Connect
    \/ ConnectFails
    \/ RetryDelay
    \/ Attempt
    \/ Record
    \/ SaveDone
    \/ Kill
    \/ Rerun

\* the orders file: eligible records of one owner, any two of which reach
\* the target
ReplanRecordChoices == {1} \X {60} \X {TRUE}

\* the ledger when the planner runs: one left by earlier runs, or one cut
\* short by a stopped save
ReplanLedgerFiles ==
    LedgerFiles \cup {open_for_write([exists |-> FALSE, intact |-> TRUE, data |-> EmptyLedger])}

InitReplan ==
    /\ \E n \in 0..MaxOrders :
         \E f \in [1..n -> ReplanRecordChoices] : orders = MkOrders(f)
    /\ target \in Targets
    /\ max_size \in {2, 3}
    /\ pc = "main"
    /\ by_org = EmptyMap
    /\ org_order = <<>>
    /\ org_i = 0
    /\ used = {}
    /\ invoices = <<>>
    /\ leftover = EmptyMap
    /\ lastCall = NoCall
    /\ xpc = "idle"
    /\ runs = 0
    /\ retry_limit = 0
    /\ delay_min = 0
    /\ delay_max = 0
    /\ delay = NoDelay
    /\ plan_invoices = <<>>
    /\ all_orders_map = [id \in {orders[i].orderId : i \in DOMAIN orders} |-> TRUE]
    /\ progress = EmptyLedger
    /\ disk \in ReplanLedgerFiles
    /\ completed_set = {}
    /\ remaining = <<>>
    /\ idx = 0
    /\ attempt = 0
    /\ success = FALSE
    /\ message = ""
    /\ sent = {}
    /\ initial_completed = 0
    /\ succeeded = 0
    /\ finalized = {}
    /\ recommitted = {}
    /\ run_log = <<>>
    /\ disk_at_start = disk
    /\ ChanIdle
    /\ CfgIdle
    /\ SubIdle

SpecReplan == InitReplan /\ [][NextReplan]_vars

(***************************************************************************)
(* Properties of the executor.                                             *)
(***************************************************************************)
InRun == xpc \in {"connect", "attempt", "record", "saving", "done", "aborted",
                  "killed"}

\* C10: an invoice whose sorted order-id set is in the completed list the
\* run starts with is never sent to the driver in that run, and when the run
\* ends the completed list (in memory and in the file) is as long as at the
\* start plus the number of invoices that succeeded in this run.
C10_SkipCompleted ==
    /\ InRun =>
          \A n \in DOMAIN plan_invoices :
              (\E k \in 1..initial_completed :
                   SortedTuple(progress.completed[k].order_ids)
                       = SortedTuple(plan_invoices[n].order_ids))
                  => SortedTuple(plan_invoices[n].order_ids) \notin sent
    /\ xpc = "done" =>
          /\ Len(progress.completed) = initial_completed + succeeded
          /\ Loads(disk)
          /\ Len(load_progress(disk).completed) = initial_completed + succeeded

\* a plan with a completed invoice X (listed in another order) and another
\* invoice that succeeds in this run
C10_Witness ==
    /\ xpc = "done"
    /\ initial_completed = 1
    /\ succeeded = 1
    /\ sent # {}
    /\ \E n \in DOMAIN plan_invoices :
         /\ SortedTuple(plan_invoices[n].order_ids)
                = SortedTuple(progress.completed[1].order_ids)
         /\ plan_invoices[n].order_ids # progress.completed[1].order_ids

\* the order-id sets of a list of ledger entries are pairwise different
UniqueIdSets(entries) ==
    \A i, j \in DOMAIN entries :
        i # j => Range(entries[i].order_ids) # Range(entries[j].order_ids)

\* C11: after any number of runs over the same plan, each starting from the
\* ledger the previous one left, with any mix of successes and failures, no
\* two entries of the completed list have the same set of order ids; this
\* holds of the ledger in memory and of the ledger file.
C11_UniqueCompleted ==
    /\ UniqueIdSets(progress.completed)
    /\ UniqueIdSets(load_progress(disk).completed)

\* a second run has ended over a ledger with two completed entries and a
\* failed one, and it skipped an invoice listed in another id order
C11_Witness ==
    /\ xpc = "done"
    /\ runs >= 2
    /\ Len(load_progress(disk).completed) >= 2
    /\ load_progress(disk).failed # <<>>
    /\ \E n \in DOMAIN plan_invoices, k \in DOMAIN progress.completed :
         /\ SortedTuple(plan_invoices[n].order_ids)
                = SortedTuple(progress.completed[k].order_ids)
         /\ plan_invoices[n].order_ids # progress.completed[k].order_ids

\* C12: when the process is stopped at any point and the executor is run
\* again over the same plan, an invoice the remote side has already carried
\* out is never committed to the remote side again.
C12_NeverCommittedAgain == recommitted = {}

\* the entries this run has added to the two lists of the ledger
NewCompleted ==
    SubSeq(progress.completed, initial_completed + 1, Len(progress.completed))

NewFailed ==
    SubSeq(progress.failed, Len(load_progress(disk_at_start).failed) + 1,
           Len(progress.failed))

\* how many entries of a list are about the invoice with this key
EntriesOf(entries, key) ==
    Cardinality({i \in DOMAIN entries : SortedTuple(entries[i].order_ids) = key})

\* C13: for each invoice processed in a run the number of submit attempts is
\* the index of the first successful attempt if there is one within
\* retry_limit attempts, and retry_limit otherwise; an invoice whose every
\* attempt failed is recorded once in that run, in failed and not in
\* completed, with the message of its last attempt.
C13_RetryBound ==
    /\ xpc = "attempt" => attempt < retry_limit /\ (attempt >= 1 => ~success)
    /\ xpc \in {"record", "saving"} =>
          IF success THEN attempt \in 1..retry_limit ELSE attempt = retry_limit
    /\ \A i \in DOMAIN run_log :
          /\ IF run_log[i].success
             THEN run_log[i].attempts \in 1..retry_limit
             ELSE run_log[i].attempts = retry_limit
          /\ ~run_log[i].success =>
                /\ EntriesOf(NewFailed, run_log[i].key) = 1
                /\ EntriesOf(NewCompleted, run_log[i].key) = 0
                /\ \E k \in DOMAIN NewFailed :
                      /\ SortedTuple(NewFailed[k].order_ids) = run_log[i].key
                      /\ NewFailed[k].message = run_log[i].message

\* with two attempts allowed, one invoice was recorded as failed after two
\* failed attempts and another as completed after its second attempt
C13_Witness ==
    /\ retry_limit = 2
    /\ \E i, j \in DOMAIN run_log :
         /\ ~run_log[i].success /\ run_log[i].attempts = 2
         /\ run_log[i].message = "Server rejected"
         /\ run_log[j].success /\ run_log[j].attempts = 2

\* C14: in every ledger reachable by any sequence of runs over a plan no
\* order-id set is both in an entry of failed and in an entry of completed.
C14_NeverFailedAndCompleted ==
    \A i \in DOMAIN load_progress(disk).failed,
       j \in DOMAIN load_progress(disk).completed :
        Range(load_progress(disk).failed[i].order_ids)
            # Range(load_progress(disk).completed[j].order_ids)

\* the ledger file holds the outcome a run_log entry stands for
Persisted(entry) ==
    /\ Loads(disk)
    /\ LET list == IF entry.success THEN load_progress(disk).completed
                   ELSE load_progress(disk).failed
       IN \E k \in DOMAIN list :
              /\ SortedTuple(list[k].order_ids) = entry.key
              /\ list[k].message = entry.message

\* C15: invoices are processed one at a time in plan order; the outcome of
\* invoice i is in the ledger file before the first driver command for
\* invoice i+1, so at any point at which the process may stop the ledger file
\* holds the outcome of every invoice of this run except possibly the one in
\* flight.
C15_PersistedBeforeNext ==
    xpc \in {"attempt", "record", "saving", "done"} =>
        /\ sent \subseteq {SortedTuple(remaining[i].order_ids) : i \in 1..idx}
        /\ \A i \in DOMAIN run_log :
              (i < idx \/ xpc = "done") => Persisted(run_log[i])

\* C16: whoever reads the ledger file at any moment of a run, or after the
\* process was stopped at any moment, finds the whole ledger as it was
\* before the current invoice's outcome was recorded or the whole ledger
\* after it, never an empty, cut or mixed content.
C16_WholeLedgerOnDisk ==
    /\ disk.exists => disk.intact
    /\ xpc \in {"connect", "attempt", "record", "saving", "done"} =>
          \/ load_progress(disk) = progress
          \/ RecordOutcome(load_progress(disk), success,
                           LedgerRecord(remaining[idx], message)) = progress

\* C17: a failure of any kind in an attempt (data error, a step that does not
\* get through, timeout, rejection, an exception of the driver) never ends
\* the run: the run is only given up before the first invoice, and when it
\* returns every remaining invoice of the plan has its ledger entry, in plan
\* order.
C17_FailuresNeverAbort ==
    /\ xpc = "aborted" => idx = 0
    /\ xpc \in {"attempt", "record"} => Len(run_log) = idx - 1
    /\ xpc = "saving" => Len(run_log) = idx
    /\ xpc = "done" =>
          /\ Len(run_log) = Len(remaining)
          /\ Len(NewCompleted) + Len(NewFailed) = Len(remaining)
          /\ \A i \in DOMAIN remaining :
                /\ run_log[i].key = SortedTuple(remaining[i].order_ids)
                /\ Persisted(run_log[i])

\* a run has returned in which the first of two invoices failed with an
\* exception of the driver and the second was carried out
C17_Witness ==
    /\ xpc = "done"
    /\ Len(remaining) = 2
    /\ run_log[1].message = "Exception"
    /\ run_log[2].success

\* C18: when the page is not found or the connection cannot be made, the run
\* is given up before any invoice is attempted and the ledger file is left
\* exactly as it was.
C18_AbortLeavesLedger ==
    xpc = "aborted" =>
        /\ disk = disk_at_start
        /\ sent = {}
        /\ attempt = 0
        /\ run_log = <<>>

\* the connection failed in a run that had a ledger file with a completed
\* entry and still an invoice to submit
C18_Witness ==
    /\ xpc = "aborted"
    /\ remaining # <<>>
    /\ disk.exists
    /\ progress.completed # <<>>

(***************************************************************************)
(* core/cdp.py: run_js and drain_messages on the channel to the page.      *)
(* The channel carries the answers to requests (with the request's id) and *)
(* events nobody asked for (no id); when and what it delivers is the       *)
(* remote side's choice.  Time is counted in ticks of a clock.             *)
(***************************************************************************)
\* what ws.recv() can return: an event (id 0) or the answer to a request
\* sent so far
Incoming == 0..mid

\* asyncio.wait_for(ws.recv(), timeout=...): the limit of the wait in progress
WaitLimit == IF cpc = "drain" THEN DrainTicks ELSE TimeoutTicks

\* mutant: the answer to any request is taken
IsAnyAnswer(m) == m # 0

\* if resp.get("id") == mid[0]
IsOwnAnswer(m) == m = mid

\* mid[0] += 1
NextRequestId(m) == m + 1

\* the "id" fields of the commands that moved the counter from `before` to
\* `after`: each send is preceded by mid[0] += 1 and carries mid[0]
SentBy(before, after) == [i \in 1..(after - before) |-> before + i]

\* run_js, lines 31-40: take the next request id and send the request
CallRunJs ==
    /\ cpc = "idle"
    /\ calls < MaxCalls
    /\ calls' = calls + 1
    /\ mid' = NextRequestId(mid)
    /\ ids_sent' = Append(ids_sent, mid')
    /\ cpc' = "run_js"
    /\ waited' = 0
    /\ elapsed' = 0
    /\ outcome' = "none"
    /\ answered' = 0
    /\ dropped' = {}
    /\ UNCHANGED <<planVars, execVars, cfgVars, subVars>>

\* run_js, lines 41-45: recv() returned a message within the limit; the
\* answer to this request is returned, anything else starts a new wait
RunJsRecv ==
    /\ cpc = "run_js"
    /\ waited < WaitLimit
    /\ \E m \in Incoming :
         IF IsOwnAnswer(m)
         THEN /\ cpc' = "idle"
              /\ outcome' = "value"
              /\ answered' = m
              /\ UNCHANGED <<waited, dropped>>
         ELSE /\ waited' = 0
              /\ dropped' = dropped \cup {m}
              /\ UNCHANGED <<cpc, outcome, answered>>
    /\ UNCHANGED <<mid, calls, elapsed, ids_sent>>
    /\ UNCHANGED <<planVars, execVars, cfgVars, subVars>>

\* run_js, line 42: wait_for gives up and raises asyncio.TimeoutError
RunJsTimeout ==
    /\ cpc = "run_js"
    /\ waited = WaitLimit
    /\ cpc' = "idle"
    /\ outcome' = "timeout"
    /\ UNCHANGED <<mid, calls, waited, elapsed, ids_sent, answered, dropped>>
    /\ UNCHANGED <<planVars, execVars, cfgVars, subVars>>

\* send_cdp, lines 57-62: take the next request id and send the command;
\* nothing is waited for
CallSendCdp ==
    /\ cpc = "idle"
    /\ calls < MaxCalls
    /\ calls' = calls + 1
    /\ mid' = NextRequestId(mid)
    /\ ids_sent' = Append(ids_sent, mid')
    /\ outcome' = "sent"
    /\ answered' = 0
    /\ dropped' = {}
    /\ UNCHANGED <<cpc, waited, elapsed>>
    /\ UNCHANGED <<planVars, execVars, cfgVars, subVars>>

\* drain_messages, lines 103-105
CallDrain ==
    /\ cpc = "idle"
    /\ calls < MaxCalls
    /\ calls' = calls + 1
    /\ cpc' = "drain"
    /\ waited' = 0
    /\ elapsed' = 0
    /\ outcome' = "none"
    /\ answered' = 0
    /\ dropped' = {}
    /\ UNCHANGED <<mid, ids_sent>>
    /\ UNCHANGED <<planVars, execVars, cfgVars, subVars>>

\* drain_messages, line 105: a message came within the limit and is dropped
DrainRecv ==
    /\ cpc = "drain"
    /\ waited < WaitLimit
    /\ waited' = 0
    /\ UNCHANGED <<mid, calls, cpc, elapsed, outcome, ids_sent, answered, dropped>>
    /\ UNCHANGED <<planVars, execVars, cfgVars, subVars>>

\* drain_messages, lines 106-107: no message within the limit
DrainTimeout ==
    /\ cpc = "drain"
    /\ waited = WaitLimit
    /\ cpc' = "idle"
    /\ outcome' = "drained"
    /\ UNCHANGED <<mid, calls, waited, elapsed, ids_sent, answered, dropped>>
    /\ UNCHANGED <<planVars, execVars, cfgVars, subVars>>

\* the clock: a tick passes while a wait is in progress and within its limit
Tick ==
    /\ cpc \in {"run_js", "drain"}
    /\ waited < WaitLimit
    /\ waited' = waited + 1
    /\ elapsed' = Min(elapsed + 1, MaxClock)
    /\ UNCHANGED <<mid, calls, cpc, outcome, ids_sent, answered, dropped>>
    /\ UNCHANGED <<planVars, execVars, cfgVars, subVars>>

NextChannel ==
    \/ CallRunJs
    \/ CallSendCdp
    \/ RunJsRecv
    \/ RunJsTimeout
    \/ CallDrain
    \/ DrainRecv
    \/ DrainTimeout
    \/ Tick

InitChannel ==
    /\ PlanIdle
    /\ ExecIdle
    /\ ChanIdle
    /\ CfgIdle
    /\ SubIdle

\* time passes, and a wait that has reached its limit is given up
ChannelFairness ==
    /\ WF_vars(Tick)
    /\ WF_vars(RunJsTimeout)
    /\ WF_vars(DrainTimeout)

SpecChannel == InitChannel /\ [][NextChannel]_vars /\ ChannelFairness

(***************************************************************************)
(* Properties of the channel helpers.                                      *)
(***************************************************************************)
\* C19: run_js fails with a timeout whenever no answer with its own request
\* id comes within `timeout` of sending the request, whatever else the
\* channel delivers meanwhile: it never waits longer than its timeout.
C19_RunJsBoundedByTimeout ==
    cpc = "run_js" => elapsed <= TimeoutTicks

\* C20: every executor run terminates whatever the channel does (silent,
\* answering, or emitting events all the time): no wait, poll, drain or
\* retry loop runs forever, so every wait on the channel comes to an end.
C20_EveryWaitEnds == (cpc # "idle") ~> (cpc = "idle")

(***************************************************************************)
(* core/config.py: load_config and _deep_merge.                            *)
(* A JSON value is a scalar or an object; v holds a scalar (as text), m the *)
(* members of an object.  Of DEFAULT_CONFIG the sections merge and         *)
(* execution are modelled; invoice and paths are merged by the same code.  *)
(***************************************************************************)
\* DEFAULT_CONFIG, lines 8-34
DEFAULT_CONFIG ==
    Dict([s \in {"merge", "execution"} |->
            IF s = "merge"
            THEN Dict([k \in {"target_amount", "max_orders_per_invoice"} |->
                         IF k = "target_amount" THEN Scalar("100.0")
                         ELSE Scalar("10")])
            ELSE Dict([k \in {"delay_min", "delay_max", "retry_limit", "cdp_port"} |->
                         CASE k = "delay_min" -> Scalar("4")
                           [] k = "delay_max" -> Scalar("9")
                           [] k = "retry_limit" -> Scalar("2")
                           [] OTHER -> Scalar("9444")])])

\* mutant: a section the user supplies replaces the default section
ShallowMergeKey(b, o, below) == o

\* _deep_merge, lines 77-80, for one key present in both: objects are
\* merged (below is the merge of the two), anything else is overwritten
MergeKey(b, o, below) == IF b.d /\ o.d THEN below ELSE o

\* _deep_merge(base, override)
RECURSIVE deep_merge(_, _)
deep_merge(base, override) ==
    Dict([k \in DOMAIN base.m \cup DOMAIN override.m |->
            IF k \notin DOMAIN override.m THEN base.m[k]
            ELSE IF k \notin DOMAIN base.m THEN override.m[k]
            ELSE MergeKey(base.m[k], override.m[k],
                          deep_merge(base.m[k], override.m[k]))])

\* load_config, lines 50-58: the defaults, with the user's document merged
\* over them when the file exists
MergedConfig(file) ==
    IF file.exists THEN deep_merge(DEFAULT_CONFIG, file.doc)
    ELSE DEFAULT_CONFIG

\* the objects over a set of keys with one candidate value each
ObjectsOver(keys, value) ==
    {Dict([k \in ks |-> value[k]]) : ks \in SUBSET keys}

UserMergeSections ==
    ObjectsOver({"target_amount", "max_orders_per_invoice", "note"},
                [k \in {"target_amount", "max_orders_per_invoice", "note"} |->
                    CASE k = "target_amount" -> Scalar("200")
                      [] k = "max_orders_per_invoice" -> Scalar("5")
                      [] OTHER -> Scalar("x")])
    \cup {Scalar("5")}

UserExecutionSections ==
    ObjectsOver({"retry_limit", "delay_min"},
                [k \in {"retry_limit", "delay_min"} |->
                    IF k = "retry_limit" THEN Scalar("1")
                    ELSE Dict([u \in {"seconds"} |-> Scalar("3")])])

\* the user's documents: any of the sections merge, execution and one the
\* defaults do not have
UserDocs ==
    {Dict([s \in ss |->
             CASE s = "merge" -> mg
               [] s = "execution" -> ex
               [] OTHER -> Dict([k \in {"a"} |-> Scalar("1")])]) :
        ss \in SUBSET {"merge", "execution", "custom"},
        mg \in UserMergeSections, ex \in UserExecutionSections}

UserFiles ==
    {[exists |-> FALSE, doc |-> Dict(NoItems)]} \cup
    {[exists |-> TRUE, doc |-> doc] : doc \in UserDocs}

\* load_config(path), first call
LoadConfig ==
    /\ kpc = "unloaded"
    /\ config' = MergedConfig(user_file)
    /\ kpc' = "loaded"
    /\ UNCHANGED user_file
    /\ UNCHANGED <<planVars, execVars, chanVars, subVars>>

\* the user's file is edited while the process runs
EditUserFile ==
    /\ kpc = "loaded"
    /\ \E f \in UserFiles : f # user_file /\ f.exists /\ user_file' = f
    /\ kpc' = "edited"
    /\ UNCHANGED config
    /\ UNCHANGED <<planVars, execVars, chanVars, subVars>>

\* load_config / get_config, lines 47-48 and 65-67: a later call returns
\* what the first call built
GetConfig ==
    /\ kpc \in {"loaded", "edited"}
    /\ kpc' = "got"
    /\ UNCHANGED <<user_file, config>>
    /\ UNCHANGED <<planVars, execVars, chanVars, subVars>>

NextConfig ==
    \/ LoadConfig
    \/ EditUserFile
    \/ GetConfig

InitConfig ==
    /\ PlanIdle
    /\ ExecIdle
    /\ ChanIdle
    /\ SubIdle
    /\ kpc = "unloaded"
    /\ config = Dict(NoItems)
    /\ user_file \in UserFiles

SpecConfig == InitConfig /\ [][NextConfig]_vars

(***************************************************************************)
(* Properties of the configuration.                                        *)
(***************************************************************************)
Absent == Scalar("<absent>")

\* doc[section][key], or Absent when the document has no such member
Lookup(doc, section, key) ==
    IF section \in DOMAIN doc.m /\ doc.m[section].d
       /\ key \in DOMAIN doc.m[section].m
    THEN doc.m[section].m[key] ELSE Absent

\* every (section, key) of a document
KnownKeys(doc) ==
    UNION {{<<s, k>> : k \in DOMAIN doc.m[s].m} :
              s \in {t \in DOMAIN doc.m : doc.m[t].d}}

\* each (section, key) the user supplies has the user's value and every
\* other one keeps its default, for the sections in `sections`
MergedKeyByKey(sections) ==
    \A sk \in KnownKeys(DEFAULT_CONFIG) \cup KnownKeys(user_file.doc) :
        sk[1] \in sections =>
            Lookup(config, sk[1], sk[2]) =
                IF Lookup(user_file.doc, sk[1], sk[2]) # Absent
                THEN Lookup(user_file.doc, sk[1], sk[2])
                ELSE Lookup(DEFAULT_CONFIG, sk[1], sk[2])

\* the sections the user wrote as something else than an object
NonObjectSections == {s \in DOMAIN user_file.doc.m : ~user_file.doc.m[s].d}

\* C21: load_config merges the user's document over the defaults key by key
\* at every level: each (section, key) the user supplies has the user's
\* value and every other (section, key) keeps its default, so a user
\* section that sets only some keys takes none of the section's other
\* default keys away.  (Sections are objects; what the user wrote as
\* something else is no section.)
C21_KeyByKeyMerge ==
    kpc = "loaded" =>
        /\ MergedKeyByKey((DOMAIN DEFAULT_CONFIG.m \cup DOMAIN user_file.doc.m)
                              \ NonObjectSections)
        /\ DOMAIN config.m = DOMAIN DEFAULT_CONFIG.m \cup DOMAIN user_file.doc.m

\* the user set one key of merge and one of execution, and a section of
\* their own: the other default keys are still there
C21_Witness ==
    /\ kpc = "loaded"
    /\ Lookup(user_file.doc, "merge", "target_amount") = Scalar("200")
    /\ Lookup(user_file.doc, "merge", "max_orders_per_invoice") = Absent
    /\ Lookup(config, "merge", "max_orders_per_invoice") = Scalar("10")
    /\ Lookup(config, "merge", "target_amount") = Scalar("200")
    /\ Lookup(user_file.doc, "execution", "retry_limit") = Scalar("1")
    /\ Lookup(config, "execution", "delay_max") = Scalar("9")
    /\ Lookup(config, "custom", "a") = Scalar("1")

(***************************************************************************)
(* The size loop of find_best_combo, and what optimize leaves over.        *)
(***************************************************************************)
\* the smallest total >= target among the combinations with a size in K
\* (0 when there is none; totals that reach a positive target are positive)
BestTotalAmong(amts, K, tgt) ==
    IF ReachingTotals(amts, K, tgt) = {} THEN 0
    ELSE SetMin(ReachingTotals(amts, K, tgt))

\* size k brings a new best: a total >= target strictly below every total
\* >= target of the smaller sizes
BringsNewBest(amts, k, tgt) ==
    /\ ReachingTotals(amts, {k}, tgt) # {}
    /\ \/ ReachingTotals(amts, 2..(k - 1), tgt) = {}
       \/ BestTotalAmong(amts, {k}, tgt) < BestTotalAmong(amts, 2..(k - 1), tgt)

\* the sizes that are examined: every allowed size up to the first that
\* brings a new best within 10% above target
ExaminedSizes(amts, tgt, msz) ==
    LET allowed == AllowedSizes(Len(amts), msz)
        stops == {k \in allowed :
                     /\ BringsNewBest(amts, k, tgt)
                     /\ TightEnough(BestTotalAmong(amts, {k}, tgt), tgt)}
    IN IF stops = {} THEN allowed ELSE {k \in allowed : k <= SetMin(stops)}

\* C29: find_best_combo tries the sizes in increasing order from 2; as soon
\* as a size brings a new best whose total is below 1.10 * target no larger
\* size is examined, otherwise the search goes on to the next size up to
\* max_size; a later size replaces the best only with a strictly smaller
\* total.  So the result is the smallest total of the examined sizes, taken
\* at the first examined size that has it.
C29_SizeSearch ==
    pc = "combo_done" =>
        LET examined == ExaminedSizes(CallAmounts, target, max_size)
            best == BestTotalAmong(CallAmounts, examined, target)
            combo == lastCall.combo
        IN /\ (combo = None) <=> (ReachingTotals(CallAmounts, examined, target) = {})
           /\ combo # None =>
                /\ ComboTotal(combo) = best
                /\ Len(combo) =
                       SetMin({k \in examined :
                                  best \in ReachingTotals(CallAmounts, {k}, target)})

\* the search stopped at size 2 on a total within 10% above target although
\* size 3, which max_size allows, has a smaller one
C29_Witness ==
    /\ pc = "combo_done"
    /\ lastCall.combo # None
    /\ Len(lastCall.combo) = 2
    /\ max_size >= 3
    /\ ComboTotal(lastCall.combo) > target
    /\ TightEnough(ComboTotal(lastCall.combo), target)
    /\ target \in ReachingTotals(CallAmounts, {3}, target)

\* C30: when optimize returns, no owner's leftover list holds a group of
\* 2..max_size records whose total is >= target.
C30_LeftoverCannotBeGrouped ==
    pc = "done" =>
        \A o \in Owners :
            ValidGroups([i \in DOMAIN LeftoverOf(o) |-> LeftoverOf(o)[i].ivcAmount],
                        DOMAIN LeftoverOf(o), target, max_size) = {}

\* an owner got an invoice and keeps two or more records, which examined
\* together do not reach target
C30_Witness ==
    /\ pc = "done"
    /\ \E k \in DOMAIN invoices :
         /\ invoices[k].org_id \in DOMAIN leftover
         /\ Len(leftover[invoices[k].org_id]) >= 2
         /\ PoolTotal(leftover[invoices[k].org_id]) < target

(***************************************************************************)
(* Data errors of one invoice.                                             *)
(***************************************************************************)
\* an id of the invoice is not in the order data, or its record has no
\* originalOrderInfo
HasDataError(inv) ==
    \E id \in Range(inv.order_ids) :
        id \notin DOMAIN all_orders_map \/ ~all_orders_map[id]

DataErrorMessages == {"Order not found in data", "Order missing originalOrderInfo"}

\* C27: an invoice with a data error (an id absent from the order data, or
\* a record without originalOrderInfo) fails before any driver command is
\* sent for it; the error affects only that invoice: the invoices without
\* data error never get its message, and every later invoice of the run is
\* still processed and recorded.
C27_DataErrorIsLocal ==
    InRun =>
        /\ \A k \in DOMAIN remaining :
             HasDataError(remaining[k]) =>
                 /\ SortedTuple(remaining[k].order_ids) \notin sent
                 /\ k \in DOMAIN run_log =>
                      /\ ~run_log[k].success
                      /\ run_log[k].attempts >= 1 =>
                             run_log[k].message \in DataErrorMessages
        /\ \A k \in DOMAIN run_log :
             ~HasDataError(remaining[k]) => run_log[k].message \notin DataErrorMessages
        /\ xpc = "done" => Len(run_log) = Len(remaining)

\* the first invoice failed on its data in every attempt, the second one
\* was submitted and completed
C27_Witness ==
    /\ xpc = "done"
    /\ Len(run_log) = 2
    /\ HasDataError(remaining[1])
    /\ run_log[1].attempts = 2
    /\ run_log[1].message \in DataErrorMessages
    /\ run_log[2].success
    /\ sent = {run_log[2].key}

(***************************************************************************)
(* The sleeps of the executor.                                             *)
(***************************************************************************)
\* the original reading of C28: the backoff before a retry lies within the
\* configured bounds delay_min and delay_max
C28_BackoffWithinConfigured ==
    delay.at = "retry" => delay.secs >= delay_min /\ delay.secs <= delay_max

\* C28: the randomized backoff before each retry attempt lies between 3 and
\* 6 seconds whatever the configuration; the configured bounds delay_min
\* and delay_max bound only the pause between two invoices.
C28_BackoffFixed ==
    /\ delay.at = "retry" =>
          /\ attempt >= 1
          /\ delay.secs >= 3 /\ delay.secs <= 6
    /\ delay.at = "next" =>
          /\ idx >= 2
          /\ delay.secs >= delay_min /\ delay.secs <= delay_max
    /\ xpc = "attempt" /\ attempt = 0 /\ idx >= 2 => delay.at = "next"

\* under a configuration with delay_min 1 and delay_max 2 the process
\* sleeps 6 seconds before the third attempt of the second invoice
C28_Witness ==
    /\ xpc = "attempt"
    /\ idx = 2
    /\ attempt = 2
    /\ delay = [at |-> "retry", secs |-> 6]
    /\ delay_min = 1
    /\ delay_max = 2

(***************************************************************************)
(* submit_one_invoice: one attempt for an invoice whose order data is      *)
(* sound, step by step.  The page and the channel are the environment:    *)
(* where a navigation or a click leads, what the page's functions return,  *)
(* which messages arrive and when.                                         *)
(***************************************************************************)
\* what location.href can show: the two list pages, the page a finished
\* submission leaves behind, the form under its two addresses, any other page
PageKinds == {"orderList", "hkList", "changeSuccess", "ivcTitle",
              "HksAppIvcTitle", "elsewhere"}

\* 'changeSuccess' in str(url) or 'ivcTitle' in str(url)
IsAftermath(p) == p \in {"changeSuccess", "ivcTitle"}

\* not ('orderList' not in str(url) and 'hkList' not in str(url))
IsList(p) == p \in {"orderList", "hkList"}

\* not ('ivcTitle' not in str(form_url) and 'HksAppIvcTitle' not in str(form_url))
IsForm(p) == p \in {"ivcTitle", "HksAppIvcTitle"}

\* location.href = '.../#/orderList?sourceId=0' and the sleep after it: the
\* list is shown, or the page has not changed yet, or another page came up
Navigate(p) == {"orderList", p, "elsewhere"}

\* the three clicks of step B: on a list page they open the form or find
\* nothing to click; on any other page the selectors find nothing of the list
ClickResults(p) ==
    IF IsList(p) THEN {p, "ivcTitle", "HksAppIvcTitle"} ELSE {p}

\* deadline = time.time() + 10, step F
AckDeadline == 10

\* asyncio.wait_for(ws.recv(), timeout=1), steps F and H
RecvTimeout == 1

\* for wait_i in range(10), step G
MaxPolls == 10

\* deadline = time.time() + 15, step H
ResultDeadline == 15

\* the clock counts in parts of a time unit
AckTicks == AckDeadline * TicksPerUnit
ResultTicks == ResultDeadline * TicksPerUnit
RecvTicks == RecvTimeout * TicksPerUnit

\* the bodies Network.getResponseBody can deliver for the merge request
BodyChoices == {"success", "rejected", "empty_object", "null", "list",
                "data_null", "garbage"}

\* merge_result: json.loads(body), or {"raw": body[:200]} when that raises;
\* None while no body was received.  code -1: the object has no code.
MergeResult(b) ==
    CASE b = "success" ->
           [truthy |-> TRUE, object |-> TRUE, code |-> 0, data |-> "object",
            allSuccess |-> TRUE]
      [] b = "rejected" ->
           [truthy |-> TRUE, object |-> TRUE, code |-> 1, data |-> "absent",
            allSuccess |-> FALSE]
      [] b = "empty_object" ->
           [truthy |-> FALSE, object |-> TRUE, code |-> -1, data |-> "absent",
            allSuccess |-> FALSE]
      [] b = "null" ->
           [truthy |-> FALSE, object |-> FALSE, code |-> -1, data |-> "absent",
            allSuccess |-> FALSE]
      [] b = "list" ->
           [truthy |-> TRUE, object |-> FALSE, code |-> -1, data |-> "absent",
            allSuccess |-> FALSE]
      [] b = "data_null" ->
           [truthy |-> TRUE, object |-> TRUE, code |-> 0, data |-> "null",
            allSuccess |-> FALSE]
      [] b = "garbage" ->
           [truthy |-> TRUE, object |-> TRUE, code |-> -1, data |-> "absent",
            allSuccess |-> FALSE]
      [] OTHER ->
           [truthy |-> FALSE, object |-> FALSE, code |-> -1, data |-> "absent",
            allSuccess |-> FALSE]

Returns(ok, msg) == [status |-> IF ok THEN "success" ELSE "failed", message |-> msg]
Raises == [status |-> "raised", message |-> "Exception"]

\* lines 222-235: what the attempt comes to once the result loop has ended;
\* text is what the page shows if it has to be read
ResultOutcome(b, text) ==
    LET r == MergeResult(b) IN
    IF ~r.truthy
    THEN IF text = "marker" THEN Returns(TRUE, "Success (detected from page text)")
         ELSE Returns(FALSE, "appDoMergeHkfpReq timeout")
    ELSE IF ~r.object THEN Raises
    ELSE IF r.code # 0 THEN Returns(FALSE, "Server rejected")
    ELSE IF r.data = "null" THEN Raises
    ELSE IF r.allSuccess THEN Returns(TRUE, "allSuccess=true")
    ELSE Returns(FALSE, "Server rejected")

\* mutant: any status of the acknowledgement lets the attempt go on
AckAnyStatus(status) == TRUE

\* check_ok = (status == 200)
CheckOk(status) == status = 200

\* STEP A, lines 70-81
EnsureOnOrderList ==
    /\ spc = "A"
    /\ \E p1 \in (IF IsAftermath(page) THEN Navigate(page) ELSE {page}) :
         \E p2 \in (IF IsList(p1) THEN {p1} ELSE Navigate(p1)) :
            /\ page' = p2
            /\ navs' = (IF IsAftermath(page) THEN 1 ELSE 0)
                       + (IF IsList(p1) THEN 0 ELSE 1)
            /\ mid' = mid + (IF IsAftermath(page) THEN 3 ELSE 1)
                          + (IF IsList(p1) THEN 0 ELSE 1)
    /\ spc' = "B"
    /\ UNCHANGED <<mode_from, commit_from, now, recv_wait, ack_status, polls,
                   ready_polls, finalize_calls, body_requests, body,
                   page_text, ret>>
    /\ ids_sent' = ids_sent \o SentBy(mid, mid')
    /\ UNCHANGED <<cpc, calls, waited, elapsed, outcome, answered, dropped>>
    /\ UNCHANGED early_ack
    /\ UNCHANGED <<planVars, execVars, cfgVars>>

\* STEP B, lines 83-100: the tab, a checkbox, the button
SwitchToChangeTab ==
    /\ spc = "B"
    /\ mode_from' = page
    /\ page' \in ClickResults(page)
    /\ mid' = mid + 3
    /\ spc' = "C"
    /\ UNCHANGED <<navs, commit_from, now, recv_wait, ack_status, polls,
                   ready_polls, finalize_calls, body_requests, body,
                   page_text, ret>>
    /\ ids_sent' = ids_sent \o SentBy(mid, mid')
    /\ UNCHANGED <<cpc, calls, waited, elapsed, outcome, answered, dropped>>
    /\ UNCHANGED early_ack
    /\ UNCHANGED <<planVars, execVars, cfgVars>>

\* STEP C, lines 102-122: the address must be the form's, the page must
\* hold a Vue VM with commitBatchHkfpReq
VerifyFormPage ==
    /\ spc = "C"
    /\ IF ~IsForm(page)
       THEN /\ ret' = Returns(FALSE, "Failed to reach form page")
            /\ spc' = "returned"
            /\ mid' = mid + 1
       ELSE \E vm_ok \in BOOLEAN :
              /\ mid' = mid + 2
              /\ IF vm_ok
                 THEN spc' = "D" /\ ret' = ret
                 ELSE /\ ret' = Returns(FALSE, "Vue VM not found on form page")
                      /\ spc' = "returned"
    /\ UNCHANGED <<page, navs, mode_from, commit_from, now, recv_wait,
                   ack_status, polls, ready_polls, finalize_calls,
                   body_requests, body, page_text>>
    /\ ids_sent' = ids_sent \o SentBy(mid, mid')
    /\ UNCHANGED <<cpc, calls, waited, elapsed, outcome, answered, dropped>>
    /\ UNCHANGED early_ack
    /\ UNCHANGED <<planVars, execVars, cfgVars>>

\* STEP D, lines 124-127: Network.enable, then the buffer is drained
EnableNetwork ==
    /\ spc = "D"
    /\ mid' = mid + 1
    /\ spc' = "E"
    /\ UNCHANGED <<page, navs, mode_from, commit_from, now, recv_wait,
                   ack_status, polls, ready_polls, finalize_calls,
                   body_requests, body, page_text, ret>>
    /\ ids_sent' = ids_sent \o SentBy(mid, mid')
    /\ UNCHANGED <<cpc, calls, waited, elapsed, outcome, answered, dropped>>
    /\ UNCHANGED early_ack
    /\ UNCHANGED <<planVars, execVars, cfgVars>>

\* what the run_js of step E reads and discards before its own answer comes
\* (cdp.py lines 41-45): nothing that matters, or the Network.responseReceived
\* event of the checkMerge request (status 200)
EarlyAckChoices == {0, 200}

\* STEP E, lines 129-152: fill the form, inject the orders, call
\* commitBatchHkfpReq; then the deadline of step F is set
CommitOrders ==
    /\ spc = "E"
    /\ mid' = mid + 1
    /\ \E result \in {"OK", "no_vm", "commit_error"} :
         IF result = "OK"
         THEN /\ commit_from' = page
              /\ spc' = "F"
              /\ ret' = ret
         ELSE /\ commit_from' = IF result = "no_vm" THEN commit_from ELSE page
              /\ spc' = "returned"
              /\ ret' = Returns(FALSE, "commitBatchHkfpReq failed")
    /\ early_ack' \in EarlyAckChoices
    /\ now' = 0
    /\ recv_wait' = 0
    /\ UNCHANGED <<page, navs, mode_from, ack_status, polls, ready_polls,
                   finalize_calls, body_requests, body, page_text>>
    /\ ids_sent' = ids_sent \o SentBy(mid, mid')
    /\ UNCHANGED <<cpc, calls, waited, elapsed, outcome, answered, dropped>>
    /\ UNCHANGED <<planVars, execVars, cfgVars>>

\* time passes while asyncio.wait_for(ws.recv(), timeout=1) waits
ClockTick ==
    /\ spc \in {"F", "H"}
    /\ recv_wait < RecvTicks
    /\ now' = now + 1
    /\ recv_wait' = recv_wait + 1
    /\ UNCHANGED <<spc, page, navs, mode_from, commit_from, ack_status,
                   polls, ready_polls, finalize_calls, body_requests, body,
                   page_text, ret>>
    /\ UNCHANGED chanVars
    /\ UNCHANGED early_ack
    /\ UNCHANGED <<planVars, execVars, cfgVars>>

\* STEP F, lines 158-172: whether the loop goes round once more
AckLoopGoesOn == now < AckTicks

\* STEP F: a message arrives before the receive times out
AckRecv ==
    /\ spc = "F"
    /\ recv_wait < RecvTicks
    /\ \E m \in {0, 200, 500} :
         IF m # 0
         THEN \* Network.responseReceived with "checkMerge" in its url
              /\ ack_status' = m
              /\ IF CheckOk(m)
                 THEN spc' = "G" /\ ret' = ret
                 ELSE /\ spc' = "returned"
                      /\ ret' = Returns(FALSE, "checkMergeHkfpReq timeout or failed")
              /\ recv_wait' = recv_wait
         ELSE \* any other message
              /\ ack_status' = ack_status
              /\ IF AckLoopGoesOn
                 THEN spc' = "F" /\ ret' = ret
                 ELSE /\ spc' = "returned"
                      /\ ret' = Returns(FALSE, "checkMergeHkfpReq timeout or failed")
              /\ recv_wait' = 0
    /\ UNCHANGED <<page, navs, mode_from, commit_from, now, polls,
                   ready_polls, finalize_calls, body_requests, body,
                   page_text>>
    /\ UNCHANGED chanVars
    /\ UNCHANGED early_ack
    /\ UNCHANGED <<planVars, execVars, cfgVars>>

\* STEP F: asyncio.TimeoutError, pass
AckRecvTimeout ==
    /\ spc = "F"
    /\ recv_wait = RecvTicks
    /\ IF AckLoopGoesOn
       THEN spc' = "F" /\ ret' = ret
       ELSE /\ spc' = "returned"
            /\ ret' = Returns(FALSE, "checkMergeHkfpReq timeout or failed")
    /\ recv_wait' = 0
    /\ UNCHANGED <<page, navs, mode_from, commit_from, now, ack_status,
                   polls, ready_polls, finalize_calls, body_requests, body,
                   page_text>>
    /\ UNCHANGED chanVars
    /\ UNCHANGED early_ack
    /\ UNCHANGED <<planVars, execVars, cfgVars>>

\* STEP G, lines 174-194: one pass of for wait_i in range(10).  The page is
\* ready when groupList is not empty; vm.submitMerge() is then called, and
\* it returns or throws (the evaluation then yields no value).
PollGroupList ==
    /\ spc = "G"
    /\ polls < MaxPolls
    /\ polls' = polls + 1
    /\ mid' = mid + 1
    /\ \E confirm \in {"no_vm", "waiting_groupList", "submitMerge_ok", "thrown"} :
         /\ ready_polls' = IF confirm \in {"submitMerge_ok", "thrown"}
                           THEN ready_polls + 1 ELSE ready_polls
         /\ finalize_calls' = IF confirm \in {"submitMerge_ok", "thrown"}
                              THEN finalize_calls + 1 ELSE finalize_calls
         /\ IF confirm = "submitMerge_ok"
            THEN spc' = "H" /\ ret' = ret
            ELSE IF polls + 1 < MaxPolls
            THEN spc' = "G" /\ ret' = ret
            ELSE /\ spc' = "returned"
                 /\ ret' = Returns(FALSE, "submitMerge failed")
    /\ now' = 0
    /\ recv_wait' = 0
    /\ UNCHANGED <<page, navs, mode_from, commit_from, ack_status,
                   body_requests, body, page_text>>
    /\ ids_sent' = ids_sent \o SentBy(mid, mid')
    /\ UNCHANGED <<cpc, calls, waited, elapsed, outcome, answered, dropped>>
    /\ UNCHANGED early_ack
    /\ UNCHANGED <<planVars, execVars, cfgVars>>

\* STEP H, lines 198-220: whether the loop goes round once more
ResultLoopGoesOn == now < ResultTicks

\* STEP H: a message arrives before the receive times out: the event of the
\* merge response (its body is then asked for), the answer carrying a body,
\* or any other message
ResultRecv ==
    /\ spc = "H"
    /\ recv_wait < RecvTicks
    /\ \E m \in {"other"}
                \cup (IF body_requests < MaxBodyRequests THEN {"DoMerge"} ELSE {})
                \cup (IF body_requests > 0 THEN BodyChoices ELSE {}) :
         IF m \in BodyChoices
         THEN \* merge_result = json.loads(body); break
              /\ body' = m
              /\ \E text \in {"marker", "plain", "raise"} :
                   IF MergeResult(m).truthy
                   THEN /\ page_text' = page_text
                        /\ ret' = ResultOutcome(m, text)
                        /\ mid' = mid
                   ELSE /\ page_text' = text
                        /\ ret' = IF text = "raise" THEN Raises
                                  ELSE ResultOutcome(m, text)
                        /\ mid' = mid + 1
              /\ spc' = "returned"
              /\ body_requests' = body_requests
              /\ recv_wait' = recv_wait
         ELSE /\ body' = body
              /\ body_requests' = body_requests + (IF m = "DoMerge" THEN 1 ELSE 0)
              /\ recv_wait' = 0
              /\ IF ResultLoopGoesOn
                 THEN /\ spc' = "H"
                      /\ ret' = ret
                      /\ page_text' = page_text
                      /\ mid' = mid + (IF m = "DoMerge" THEN 1 ELSE 0)
                 ELSE \E text \in {"marker", "plain", "raise"} :
                      /\ spc' = "returned"
                      /\ page_text' = text
                      /\ ret' = IF text = "raise" THEN Raises
                                ELSE ResultOutcome("none", text)
                      /\ mid' = mid + (IF m = "DoMerge" THEN 2 ELSE 1)
    /\ UNCHANGED <<page, navs, mode_from, commit_from, now, ack_status,
                   polls, ready_polls, finalize_calls>>
    /\ ids_sent' = ids_sent \o SentBy(mid, mid')
    /\ UNCHANGED <<cpc, calls, waited, elapsed, outcome, answered, dropped>>
    /\ UNCHANGED early_ack
    /\ UNCHANGED <<planVars, execVars, cfgVars>>

\* STEP H: asyncio.TimeoutError, pass; after the deadline the page text decides
ResultRecvTimeout ==
    /\ spc = "H"
    /\ recv_wait = RecvTicks
    /\ recv_wait' = 0
    /\ IF ResultLoopGoesOn
       THEN /\ spc' = "H"
            /\ UNCHANGED <<ret, page_text, mid>>
       ELSE \E text \in {"marker", "plain", "raise"} :
            /\ spc' = "returned"
            /\ page_text' = text
            /\ ret' = IF text = "raise" THEN Raises ELSE ResultOutcome("none", text)
            /\ mid' = mid + 1
    /\ UNCHANGED <<page, navs, mode_from, commit_from, now, ack_status,
                   polls, ready_polls, finalize_calls, body_requests, body>>
    /\ ids_sent' = ids_sent \o SentBy(mid, mid')
    /\ UNCHANGED <<cpc, calls, waited, elapsed, outcome, answered, dropped>>
    /\ UNCHANGED early_ack
    /\ UNCHANGED <<planVars, execVars, cfgVars>>

\* run_js raises in one of the steps that evaluate on the page (its receive
\* timed out, the connection closed): submit_one_invoice ends with that
RunJsRaises ==
    /\ spc \in {"A", "B", "C", "E", "G"}
    /\ mid' = mid + 1
    /\ spc' = "returned"
    /\ ret' = Raises
    /\ UNCHANGED <<page, navs, mode_from, commit_from, now, recv_wait,
                   ack_status, polls, ready_polls, finalize_calls,
                   body_requests, body, page_text>>
    /\ ids_sent' = ids_sent \o SentBy(mid, mid')
    /\ UNCHANGED <<cpc, calls, waited, elapsed, outcome, answered, dropped>>
    /\ UNCHANGED early_ack
    /\ UNCHANGED <<planVars, execVars, cfgVars>>

NextSubmit ==
    \/ EnsureOnOrderList
    \/ SwitchToChangeTab
    \/ VerifyFormPage
    \/ EnableNetwork
    \/ CommitOrders
    \/ ClockTick
    \/ AckRecv
    \/ AckRecvTimeout
    \/ PollGroupList
    \/ ResultRecv
    \/ ResultRecvTimeout
    \/ RunJsRaises

\* submit_one_invoice is called with the page anywhere
InitSubmit ==
    /\ spc = "A"
    /\ page \in PageKinds
    /\ navs = 0
    /\ mode_from = "none"
    /\ commit_from = "none"
    /\ now = 0
    /\ recv_wait = 0
    /\ early_ack = 0
    /\ ack_status = 0
    /\ polls = 0
    /\ ready_polls = 0
    /\ finalize_calls = 0
    /\ body_requests = 0
    /\ body = "none"
    /\ page_text = "unread"
    /\ ret = NoReturn
    /\ PlanIdle
    /\ ExecIdle
    /\ ChanIdle
    /\ CfgIdle

SpecSubmit == InitSubmit /\ [][NextSubmit]_vars

(***************************************************************************)
(* Properties of one attempt.                                              *)
(***************************************************************************)
Failed(msg) == spc = "returned" /\ ret = Returns(FALSE, msg)

\* C22: within one attempt the steps run in the fixed order EnsurePosition,
\* SelectMode, Stage, Commit, AwaitAck, AwaitReadiness, AwaitResult; a step
\* starts only if the one before it succeeded, a failure at a step ends the
\* attempt without any command of a later step, and submitMerge is called
\* only after an acknowledgement with status 200 was seen in the attempt.
C22_StepsInOrder ==
    /\ mode_from # "none" => IsList(mode_from)
    /\ spc \in {"D", "E"} => mode_from # "none" /\ IsForm(page)
    /\ commit_from # "none" => mode_from # "none" /\ IsForm(commit_from)
    /\ spc \in {"F", "G", "H"} => commit_from # "none"
    /\ polls > 0 => ack_status = 200
    /\ finalize_calls > 0 => ack_status = 200
    /\ spc = "H" \/ body_requests > 0 \/ body # "none" \/ page_text # "unread" =>
          finalize_calls > 0
    /\ Failed("Failed to reach form page") \/ Failed("Vue VM not found on form page") =>
          commit_from = "none" /\ polls = 0 /\ finalize_calls = 0
    /\ Failed("commitBatchHkfpReq failed") \/ Failed("checkMergeHkfpReq timeout or failed") =>
          polls = 0 /\ finalize_calls = 0 /\ body_requests = 0
    /\ Failed("submitMerge failed") => body_requests = 0 /\ page_text = "unread"

\* C23: if the page is still not the order list after the corrective
\* navigation of step A, the attempt ends as failed: the clicks of step B
\* are never sent to a page that is not the list, and nothing is committed
\* in an attempt that left step A on a wrong page.
C23_FailsFromWrongContext ==
    /\ spc = "B" => IsList(page)
    /\ spc \in {"C", "D", "E", "F", "G", "H"} => IsList(mode_from)
    /\ commit_from # "none" => IsList(mode_from)

\* the body carries the structured success indicator: an object with
\* code 0 and a truthy data.allSuccess
HasSuccessIndicator(b) ==
    /\ MergeResult(b).object
    /\ MergeResult(b).code = 0
    /\ MergeResult(b).data = "object"
    /\ MergeResult(b).allSuccess
    /\ b # "none"

\* C24: the attempt is a success only if the captured merge result has
\* code 0 and a truthy data.allSuccess, or if no result was captured before
\* the deadline and the page text shows the marker; whenever a body was
\* received that lacks the indicator (rejection, empty or non-object JSON,
\* unparseable text) the attempt is a failure.
C24_SuccessOnlyOnIndicator ==
    /\ ret.status = "success" =>
          \/ HasSuccessIndicator(body)
          \/ body = "none" /\ page_text = "marker"
    /\ spc = "returned" /\ body # "none" /\ ~HasSuccessIndicator(body) =>
          ret.status \in {"failed", "raised"}

\* what steps F leaves behind in any reading of C25: while it waits nothing
\* is decided, the first checkMerge response decides, status 200 goes on to
\* step G and any other status fails the attempt, and a failure without
\* such a response comes only after the deadline
AckStepDecides ==
    /\ spc = "F" => ack_status = 0 /\ ret = NoReturn
    /\ spc \in {"G", "H"} \/ polls > 0 => ack_status = 200
    /\ ack_status \notin {0, 200} =>
          Failed("checkMergeHkfpReq timeout or failed") /\ polls = 0
    /\ Failed("checkMergeHkfpReq timeout or failed") /\ ack_status = 0 =>
          now >= AckTicks

\* the clock when step F ended with a checkMerge response
AckSeen ==
    \/ spc = "G" /\ polls = 0
    \/ spc = "returned" /\ ack_status \notin {0, 200}

\* the original reading of C25: a checkMerge response decides the step only
\* if it is received before the 10-unit deadline
C25_AckBeforeDeadline ==
    /\ AckStepDecides
    /\ AckSeen => now < AckTicks

\* C25: in step F messages that are no checkMerge response are ignored; the
\* first checkMerge response decides: status 200 lets the attempt go on, any
\* other status fails it; the deadline of 10 units is looked at between two
\* receives of up to 1 unit each, so the step fails as a timeout if no such
\* response was received when that look finds the deadline passed, and a
\* response received less than 1 unit after the deadline still decides.
C25_AckWithinOneReceive ==
    /\ AckStepDecides
    /\ AckSeen => now < AckTicks + RecvTicks
    /\ spc = "F" => now < AckTicks + RecvTicks

\* a checkMerge response with status 200 arrived after the deadline and the
\* attempt went on to step G
C25_Witness ==
    /\ spc = "G"
    /\ polls = 0
    /\ ack_status = 200
    /\ now >= AckTicks

\* C26: in step G the readiness check runs at most 10 times per attempt;
\* submitMerge is called at most once per attempt and only by a pass whose
\* readiness check passed; if no pass finds the page ready the attempt fails
\* without submitMerge having been called.
C26_FinalizeAtMostOnce ==
    /\ polls <= MaxPolls
    /\ finalize_calls <= ready_polls
    /\ finalize_calls <= 1
    /\ Failed("submitMerge failed") /\ ready_polls = 0 => finalize_calls = 0

(***************************************************************************)
(* Invoice sizes, and the two size-skipping rules.                         *)
(***************************************************************************)
\* C35: every invoice optimize produces holds at least 2 records: a single
\* record is never an invoice on its own, even with an amount >= target,
\* and an owner with exactly one eligible record has it in leftover.
C35_AtLeastTwoRecords ==
    /\ \A k \in DOMAIN invoices : Len(invoices[k].order_ids) >= 2
    /\ pc = "done" =>
          \A o \in Owners :
              Len(EligibleOf(o)) = 1 =>
                  /\ LeftoverOf(o) = EligibleOf(o)
                  /\ InvoicesOf(o) = <<>>

\* the owner's only eligible record is worth more than a positive target
\* and is left over, no invoice is planned
C35_Witness ==
    /\ pc = "done"
    /\ target > 0
    /\ max_size >= 2
    /\ invoices = <<>>
    /\ \E o \in Owners :
         /\ Len(EligibleOf(o)) = 1
         /\ EligibleOf(o)[1].ivcAmount > target
         /\ LeftoverOf(o) = EligibleOf(o)

\* the search of find_best_combo without its two size-skipping rules: same
\* sizes, same enumeration, same strict improvement, same early stop
RECURSIVE SearchAllSizes(_, _, _, _, _)
SearchAllSizes(awi, size, st, tgt, msz) ==
    IF size > LastSize(Len(awi), msz) THEN st.best
    ELSE LET st2 == ScanCombos(awi, Combinations(Len(awi), size), 1,
                               [st EXCEPT !.found = FALSE], tgt)
         IN IF StopsAfter(st2, tgt) THEN st2.best
            ELSE SearchAllSizes(awi, size + 1, st2, tgt, msz)

\* C36: the two size-skipping rules of find_best_combo never change its
\* result: for every remaining pool (sorted by amount descending, as
\* optimize passes it), target and max_size the combination returned is the
\* one the same search returns without the two rules.
C36_PruningKeepsResult ==
    lastCall.called =>
        lastCall.combo =
            SearchAllSizes(lastCall.remaining, 2,
                           [best |-> None, best_sum |-> 0, found |-> FALSE],
                           target, max_size)

\* both rules acted in one call: size 2 was skipped because its top cannot
\* reach target, size 3 set a best that is not within 10%, and size 4 was
\* skipped because its bottom cannot beat that best
C36_Witness ==
    /\ pc = "combo_done"
    /\ lastCall.combo # None
    /\ Len(lastCall.combo) = 3
    /\ max_size = 4
    /\ Len(CallAmounts) >= 4
    /\ TopCannotReach(CallAmounts, 2, target)
    /\ ~TightEnough(ComboTotal(lastCall.combo), target)
    /\ SumSeq(SubSeq(CallAmounts, Len(CallAmounts) - 3, Len(CallAmounts)))
           >= ComboTotal(lastCall.combo)

(***************************************************************************)
(* The ledger only grows.                                                  *)
(***************************************************************************)
IsPrefix(s, t) == Len(s) <= Len(t) /\ SubSeq(t, 1, Len(s)) = s

\* the ledger records of the invoices this run has recorded with the given
\* outcome, in the order they were recorded
RunRecords(ok) ==
    LET all == [k \in DOMAIN run_log |->
                   [ok |-> run_log[k].success,
                    rec |-> LedgerRecord(remaining[k], run_log[k].message)]]
        sel == SelectSeq(all, LAMBDA e : e.ok = ok)
    IN [i \in DOMAIN sel |-> sel[i].rec]

\* C34: the executor only appends to the ledger: in every run the completed
\* and failed lists as loaded at start stay an unchanged prefix of the lists
\* persisted afterwards, each processed invoice adds exactly one entry to
\* exactly one of completed and failed, and skipped is never modified.
C34_AppendOnly ==
    xpc \in {"connect", "attempt", "record", "saving", "done"} =>
        LET start == load_progress(disk_at_start) IN
        /\ progress.completed = start.completed \o RunRecords(TRUE)
        /\ progress.failed = start.failed \o RunRecords(FALSE)
        /\ progress.skipped = start.skipped
        /\ Loads(disk) =>
              /\ IsPrefix(start.completed, load_progress(disk).completed)
              /\ IsPrefix(load_progress(disk).completed, progress.completed)
              /\ IsPrefix(start.failed, load_progress(disk).failed)
              /\ IsPrefix(load_progress(disk).failed, progress.failed)
              /\ load_progress(disk).skipped = start.skipped
        /\ xpc = "done" /\ run_log # <<>> => disk = save_progress(progress)

\* a run over a ledger with a failed and a skipped entry recorded one more
\* failure and one success
C34_Witness ==
    /\ xpc = "done"
    /\ load_progress(disk_at_start).failed # <<>>
    /\ load_progress(disk_at_start).skipped # <<>>
    /\ Len(load_progress(disk).failed) = 2
    /\ Len(load_progress(disk).completed) = 1
    /\ load_progress(disk).skipped = load_progress(disk_at_start).skipped

(***************************************************************************)
(* C32: a plan produced by the planner entry point while a ledger exists   *)
(* holds, in its invoices and in its leftover lists, no order id of a      *)
(* completed entry of that ledger; and an executor run over that plan      *)
(* never makes an attempt on an invoice that holds an order id of a        *)
(* completed entry of the ledger (as held in memory, and as on disk when   *)
(* the file loads).                                                        *)
(***************************************************************************)
PlanIds ==
    UNION {Range(invoices[k].order_ids) : k \in DOMAIN invoices}
    \cup UNION {{leftover[o][i].orderId : i \in DOMAIN leftover[o]} : o \in DOMAIN leftover}

C32_PlanExcludesCompleted ==
    /\ xpc = "idle" /\ pc \in {"start", "owner", "done"} =>
          PlanIds \cap done_ids(load_progress(disk)) = {}
    /\ pc = "done" /\ xpc = "attempt" =>
          /\ Range(remaining[idx].order_ids) \cap done_ids(progress) = {}
          /\ Loads(disk) =>
                Range(remaining[idx].order_ids) \cap done_ids(load_progress(disk)) = {}

\* the ledger the planner read had a completed entry over records of the
\* orders file, the plan made of the other records has an invoice, and a
\* second executor run makes an attempt on it
C32_Witness ==
    /\ pc = "done"
    /\ xpc = "attempt"
    /\ runs = 2
    /\ plan_invoices # <<>>
    /\ progress.completed # <<>>
    /\ done_ids(progress) \cap DOMAIN all_orders_map # {}
    /\ Len(orders) < Cardinality(DOMAIN all_orders_map)
    /\ Range(remaining[idx].order_ids) \cap done_ids(progress) = {}

(***************************************************************************)
(* C31: every command sent on the channel during a run carries an id       *)
(* strictly greater than the id of every command sent before it, and a     *)
(* value run_js returns is that of the response whose id is the id of its  *)
(* own request: an event or a response with another id (a late answer to   *)
(* an earlier request among them) is discarded, never returned.            *)
(***************************************************************************)
C31_IdsIncreaseOwnAnswerOnly ==
    /\ \A i, j \in DOMAIN ids_sent : i < j => ids_sent[i] < ids_sent[j]
    /\ cpc = "run_js" => answered = 0
    /\ outcome = "value" =>
          /\ answered = ids_sent[Len(ids_sent)]
          /\ answered # 0
          /\ answered \notin dropped

\* the third command of the run was a run_js request; an event and the answer
\* to an earlier request came first and it returned the value of its own answer
C31_Witness ==
    /\ outcome = "value"
    /\ Len(ids_sent) = 3
    /\ answered = 3
    /\ 0 \in dropped
    /\ \E k \in dropped : k # 0 /\ k < answered


(***************************************************************************)
(* C33: no acknowledgement is lost to message interleaving: when the       *)
(* channel has delivered the checkMerge response event after the commit    *)
(* command was sent, be it before the answer to the commit evaluation      *)
(* itself, the attempt does not fail in AwaitAck without having seen an    *)
(* acknowledgement.                                                        *)
(***************************************************************************)
C33_NoAckLost ==
    early_ack # 0 =>
        ~(/\ ret = Returns(FALSE, "checkMergeHkfpReq timeout or failed")
          /\ ack_status = 0)


====
